---- MODULE Spec2Model ----
(***************************************************************************)
(* State-machine model of the cost-guard runtime: the lifecycle hooks of   *)
(* CostGuard (core/cost_guard.py), the BudgetTracker with its period       *)
(* accounting (core/budget_tracker.py), the RunState / PeriodUsage          *)
(* accumulators (core/entities.py), the budget policies                     *)
(* (policies/budget.py, policies/store.py), the pricing table               *)
(* (pricing/table.py) and the Valkey backing store                          *)
(* (persistence/valkey_store.py).                                           *)
(*                                                                         *)
(* Conventions.                                                            *)
(*  - Money is counted in hundredths of a cent (1 USD = 10000), so that     *)
(*    every per-1k-token rate of the pricing table is an integer; token     *)
(*    counts are multiples of 100, which keeps every cost an integer, and   *)
(*    sums are exact (floating-point rounding is not modelled).             *)
(*  - Time is counted in ticks of 30 minutes since Monday 2024-01-01        *)
(*    00:00 UTC.                                                            *)
(*  - An Optional value is a sequence: <<>> is None, <<v>> is v.            *)
(*  - A dict is a function; the empty dict is <<>>.                         *)
(*  - An identifier (tenant, strand, workflow, budget id) is a sequence of  *)
(*    colon-free segments; a scope key is the concatenation the f-strings   *)
(*    of _get_scope_key produce, segment by segment.                        *)
(*  - A model name is a sequence of characters (prefix matching in the      *)
(*    pricing table is character-wise).                                     *)
(***************************************************************************)
EXTENDS Integers, Sequences, FiniteSets, TLC

VARIABLES
    now,            \* wall clock (datetime.utcnow()), in ticks
    config,         \* CostGuardConfig: enable_budget_enforcement, enable_routing,
                    \* enable_metrics, failure_mode, and whether a budget_store is set
    policy,         \* PolicyStore: budgets, routing_policies, pricing, snapshot
    budget_states,  \* BudgetTracker._budget_states: scope key -> BudgetState
    run_states,     \* BudgetTracker._run_states: run_id -> RunState
    run_budgets,    \* CostGuard._run_budgets: run_id -> list of BudgetSpec
    store,          \* the Valkey keyspace: scope key -> [data, expire_at]
    registered,     \* history: the pairs <<scope key, run_id>> of the runs an
                    \* admitting admit_run resolved to that scope key and that
                    \* end_run has not yet ended
    ended,          \* history: the run ids whose run has been ended by end_run
    admits,         \* history: run_id -> the number of times admit_run admitted it
    refresher,      \* the thread inside PolicyStore.refresh: its position, the
                    \* budget_data and routing_data it has loaded, and how
                    \* its last refresh ended
    outcome,        \* what the last hook call gave its caller: the fault it
                    \* met, whether it raised, and the decision it returned
    thread,         \* a second thread of the host inside on_run_start: its
                    \* position, its arguments, and what its
                    \* check_budget_limits has gathered so far
    peer            \* a second process on the same store: its tracker's
                    \* _budget_states, _run_states, and its history

vars == <<now, config, policy, budget_states, run_states, run_budgets, store,
          registered, ended, admits, refresher, outcome, thread,
          peer>>

---------------------------------------------------------------------------
(* Bounds of the model *)

\* the clock is followed for this many ticks
MaxTicks == 1
\* a run accrues at most this many model tokens (input + output)
MaxRunTokens == 1000
\* a run makes at most this many tool calls
MaxRunToolCalls == 1
\* iteration indices handed to before_iteration / after_iteration
MaxIterationIdx == 0
\* admit_run admits a run id at most this many times (the second is a
\* duplicate of a live run), and no run id is started again after its run ended
MaxAdmits == 2

---------------------------------------------------------------------------
(* Generic helpers *)

None == <<>>
Some(v) == <<v>>
IsNone(o) == o = <<>>
IsSome(o) == o # <<>>
Val(o) == o[1]

Min(a, b) == IF a <= b THEN a ELSE b
Max(a, b) == IF a >= b THEN a ELSE b

EmptyDict == <<>>
DictGet(d, k, default) == IF k \in DOMAIN d THEN d[k] ELSE default
\* d[k] = d.get(k, 0.0) + v
DictAdd(d, k, v) ==
    [x \in (DOMAIN d) \cup {k} |-> IF x = k THEN DictGet(d, k, 0) + v ELSE d[x]]

RECURSIVE SumOver(_, _)
SumOver(d, keys) ==
    IF keys = {} THEN 0
    ELSE LET k == CHOOSE x \in keys : TRUE
         IN  d[k] + SumOver(d, keys \ {k})
\* sum(d.values())
DictSum(d) == SumOver(d, DOMAIN d)

\* for k, v in src.items(): dst[k] = dst.get(k, 0.0) + v
DictMerge(dst, src) ==
    [x \in (DOMAIN dst) \cup (DOMAIN src) |->
        DictGet(dst, x, 0) + DictGet(src, x, 0)]

---------------------------------------------------------------------------
(* Time: datetime arithmetic of get_period_boundaries *)

TicksPerHour == 2
TicksPerDay == 24 * TicksPerHour
TicksPerWeek == 7 * TicksPerDay

IsLeapYear(y) == (y % 4 = 0 /\ y % 100 # 0) \/ y % 400 = 0
DaysInMonth(y, m) ==
    IF m = 2 THEN (IF IsLeapYear(y) THEN 29 ELSE 28)
    ELSE IF m \in {4, 6, 9, 11} THEN 30 ELSE 31

EpochYear == 2024

\* the clock starts at 23:30 of the first day: one tick before the hour and
\* the day roll over
StartTime == TicksPerDay - 1

\* The month containing tick t, as <<first tick of the month, first tick of the
\* next month>>: now.replace(day=1, ...) and start.replace(month=month+1), with
\* December rolling to January of the next year.
RECURSIVE MonthOf(_, _, _, _)
MonthOf(y, m, first, t) ==
    LET next == first + DaysInMonth(y, m) * TicksPerDay
    IN  IF t < next THEN <<first, next>>
        ELSE IF m = 12 THEN MonthOf(y + 1, 1, next, t)
        ELSE MonthOf(y, m + 1, next, t)

\* (a variant whose periods start at the reference time)
get_period_boundaries_from_reference(period, t) ==
    CASE period = "hourly" -> <<t, t + TicksPerHour>>
      [] period = "daily" -> <<t, t + TicksPerDay>>
      [] period = "weekly" -> <<t, t + TicksPerWeek>>
      [] period = "monthly" -> <<t, t + 30 * TicksPerDay>>

\* get_period_boundaries(period, reference_time) -> (start, end)
get_period_boundaries(period, t) ==
    CASE period = "hourly" ->
            LET start == t - (t % TicksPerHour) IN <<start, start + TicksPerHour>>
      [] period = "daily" ->
            LET start == t - (t % TicksPerDay) IN <<start, start + TicksPerDay>>
      [] period = "weekly" ->
            \* the epoch is a Monday: weekday() = (t \div TicksPerDay) % 7
            LET days_since_monday == (t \div TicksPerDay) % 7
                start == (t - days_since_monday * TicksPerDay)
                         - (t % TicksPerDay)
            IN  <<start, start + TicksPerWeek>>
      [] period = "monthly" -> MonthOf(EpochYear, 1, 0, t)

---------------------------------------------------------------------------
(* Budget policies: policies/budget.py *)

Wild == <<"*">>

\* one dollar, in hundredths of a cent
USD == 100 * 100

\* BudgetSpec.from_dict applied to a dict that gives only "id": every other
\* field takes its default.  soft_thresholds are fractions, kept in percent.
BudgetDefaults(id) ==
    [id |-> id,
     scope |-> "tenant",
     match |-> [tenant_id |-> Wild, strand_id |-> Wild, workflow_id |-> Wild],
     period |-> "monthly",
     max_cost |-> None,
     soft_thresholds |-> <<70, 90, 100>>,
     hard_limit |-> TRUE,
     on_soft_threshold_exceeded |-> "LOG_ONLY",
     on_hard_limit_exceeded |-> "REJECT_NEW_RUNS",
     max_runs_per_period |-> None,
     max_concurrent_runs |-> None,
     constraints |-> [max_iterations_per_run |-> None,
                      max_tool_calls_per_run |-> None,
                      max_model_tokens_per_run |-> None,
                      max_cost_per_run |-> None],
     enabled |-> TRUE]

\* BudgetMatch.matches
BudgetMatch_matches(m, tenant_id, strand_id, workflow_id) ==
    /\ ~(m.tenant_id # Wild /\ m.tenant_id # tenant_id)
    /\ ~(m.strand_id # Wild /\ m.strand_id # strand_id)
    /\ ~(m.workflow_id # Wild /\ m.workflow_id # workflow_id)

\* BudgetMatch.specificity_score
BudgetMatch_specificity_score(m) ==
    (IF m.tenant_id # Wild THEN 1 ELSE 0)
    + (IF m.strand_id # Wild THEN 2 ELSE 0)
    + (IF m.workflow_id # Wild THEN 4 ELSE 0)

\* BudgetSpec.get_priority
get_priority(b) ==
    (CASE b.scope = "global" -> 0
       [] b.scope = "tenant" -> 10
       [] b.scope = "strand" -> 20
       [] b.scope = "workflow" -> 30
       [] OTHER -> 0)
    + BudgetMatch_specificity_score(b.match)

\* BudgetSpec.matches_context
matches_context(b, ctx) ==
    b.enabled /\ BudgetMatch_matches(b.match, ctx.tenant_id, ctx.strand_id, ctx.workflow_id)

\* A utilization is the exact fraction total_cost / max_cost, kept as
\* <<numerator, denominator>> with denominator > 0.
UtilGE(u, percent) == u[1] * 100 >= percent * u[2]

\* BudgetSpec.get_current_threshold_action(utilization)
get_current_threshold_action(b, u) ==
    IF \E i \in 1..Len(b.soft_thresholds) : UtilGE(u, b.soft_thresholds[i])
    THEN Some(b.on_soft_threshold_exceeded)
    ELSE None

\* BudgetSpec.is_hard_limit_exceeded(utilization)
is_hard_limit_exceeded(b, u) == b.hard_limit /\ UtilGE(u, 100)

\* Python truthiness of an Optional number: neither None nor 0
Truthy(o) == IsSome(o) /\ Val(o) # 0

---------------------------------------------------------------------------
(* Policy store: policies/store.py *)

\* an insertion that puts a budget before those of equal priority
RECURSIVE InsertByPriority_unstable(_, _)
InsertByPriority_unstable(sorted, x) ==
    IF sorted = <<>> THEN <<x>>
    ELSE IF get_priority(Head(sorted)) > get_priority(x)
         THEN <<Head(sorted)>> \o InsertByPriority_unstable(Tail(sorted), x)
         ELSE <<x>> \o sorted

\* self._budgets.sort(key=lambda b: b.get_priority(), reverse=True): a stable
\* sort, descending by priority (an insertion sort that keeps input order
\* among equal keys)
RECURSIVE InsertByPriority(_, _)
InsertByPriority(sorted, x) ==
    IF sorted = <<>> THEN <<x>>
    ELSE IF get_priority(Head(sorted)) >= get_priority(x)
         THEN <<Head(sorted)>> \o InsertByPriority(Tail(sorted), x)
         ELSE <<x>> \o sorted
RECURSIVE SortByPriority(_)
SortByPriority(s) ==
    IF s = <<>> THEN <<>>
    ELSE InsertByPriority(SortByPriority(SubSeq(s, 1, Len(s) - 1)), s[Len(s)])

\* PolicyStore.refresh on a successful load of budget_data
refresh_budgets(budget_data) == SortByPriority(budget_data)

\* PolicyStore.get_budgets_for_context
get_budgets_for_context(ctx) ==
    SelectSeq(policy.budgets, LAMBDA b : matches_context(b, ctx))

---------------------------------------------------------------------------
(* Entities: core/entities.py *)

\* RunState(context=context)
NewRunState(context) ==
    [context |-> context,
     current_iteration |-> 0,
     total_cost |-> 0,
     total_input_tokens |-> 0,
     total_output_tokens |-> 0,
     total_tool_calls |-> 0,
     model_costs |-> EmptyDict,
     tool_costs |-> EmptyDict,
     status |-> "running"]

\* RunState.add_model_cost
add_model_cost(rs, model_name, cost, input_tokens, output_tokens) ==
    [rs EXCEPT !.total_cost = @ + cost,
               !.total_input_tokens = @ + input_tokens,
               !.total_output_tokens = @ + output_tokens,
               !.model_costs = DictAdd(@, model_name, cost)]

\* (a variant that keeps no per-tool cost)
add_tool_cost_untracked(rs, tool_name, cost) ==
    [rs EXCEPT !.total_cost = @ + cost,
               !.total_tool_calls = @ + 1]

\* RunState.add_tool_cost
add_tool_cost(rs, tool_name, cost) ==
    [rs EXCEPT !.total_cost = @ + cost,
               !.total_tool_calls = @ + 1,
               !.tool_costs = DictAdd(@, tool_name, cost)]

\* PeriodUsage(scope_type, scope_id, period_start, period_end): the
\* accumulators take their defaults
NewPeriodUsage(scope_type, scope_id, period_start, period_end) ==
    [scope_type |-> scope_type,
     scope_id |-> scope_id,
     period_start |-> period_start,
     period_end |-> period_end,
     total_cost |-> 0,
     total_runs |-> 0,
     concurrent_runs |-> 0,
     total_input_tokens |-> 0,
     total_output_tokens |-> 0,
     total_iterations |-> 0,
     total_tool_calls |-> 0,
     model_costs |-> EmptyDict,
     tool_costs |-> EmptyDict]

\* PeriodUsage.add_run_cost
add_run_cost(usage, rs) ==
    [usage EXCEPT !.total_cost = @ + rs.total_cost,
                  !.total_runs = @ + 1,
                  !.total_input_tokens = @ + rs.total_input_tokens,
                  !.total_output_tokens = @ + rs.total_output_tokens,
                  !.total_iterations = @ + rs.current_iteration,
                  !.total_tool_calls = @ + rs.total_tool_calls,
                  !.model_costs = DictMerge(@, rs.model_costs),
                  !.tool_costs = DictMerge(@, rs.tool_costs)]

---------------------------------------------------------------------------
(* Backing store: persistence/valkey_store.py.  The keyspace maps a scope   *)
(* key to [data |-> BudgetStateData, expire_at |-> Optional time]; a key    *)
(* whose expiry time has come is gone (the server evicts it).               *)
(* concurrent_run_ids is a list without duplicates, kept as a set.          *)

\* client.get(key) / ValkeyBudgetStore.get
store_get(st, key) == IF key \in DOMAIN st THEN Some(st[key].data) ELSE None

\* a dict pop that leaves the entry in place
StoreKeep(st, key) == st

\* the keyspace with key bound to entry
StorePut(st, key, entry) ==
    [k \in (DOMAIN st) \cup {key} |-> IF k = key THEN entry ELSE st[k]]
\* the keyspace without key
StoreDrop(st, key) == [k \in (DOMAIN st) \ {key} |-> st[k]]

\* ValkeyBudgetStore.set(scope_key, state, expire_at): SET, then EXPIREAT.
\* SET clears any expiry the key had; EXPIREAT at a time already reached
\* deletes the key.
store_set(st, key, data, expire_at) ==
    IF IsSome(expire_at) /\ Val(expire_at) <= now
    THEN StoreDrop(st, key)
    ELSE StorePut(st, key, [data |-> data, expire_at |-> expire_at])

\* BudgetStateData(budget_id, scope_key, period_start, period_end)
NewBudgetStateData(budget_id, scope_key, period_start, period_end) ==
    [budget_id |-> budget_id,
     scope_key |-> scope_key,
     period_start |-> period_start,
     period_end |-> period_end,
     total_cost |-> 0,
     total_runs |-> 0,
     total_input_tokens |-> 0,
     total_output_tokens |-> 0,
     total_iterations |-> 0,
     total_tool_calls |-> 0,
     model_costs |-> EmptyDict,
     tool_costs |-> EmptyDict,
     concurrent_run_ids |-> {}]

\* ValkeyBudgetStore.get_or_create -> [st |-> keyspace, data |-> BudgetStateData]
store_get_or_create(st, key, budget_id, period_start, period_end) ==
    LET existing == store_get(st, key)
    IN  IF IsSome(existing) /\ now < Val(existing).period_end
        THEN [st |-> st, data |-> Val(existing)]
        ELSE LET state == NewBudgetStateData(budget_id, key, period_start, period_end)
             IN  [st |-> store_set(st, key, state, Some(period_end)), data |-> state]

\* ValkeyBudgetStore.increment_run_count, its first attempt succeeding:
\* the pipeline's SET writes the entry back without an expiry
store_increment_run_count(st, key, run_id) ==
    LET existing == store_get(st, key)
    IN  IF IsNone(existing) THEN st
        ELSE StorePut(st, key,
                [data |-> [Val(existing) EXCEPT
                               !.total_runs = @ + 1,
                               !.concurrent_run_ids = @ \cup {run_id}],
                 expire_at |-> None])

\* ValkeyBudgetStore.remove_concurrent_run, its first attempt succeeding
store_remove_concurrent_run(st, key, run_id) ==
    LET existing == store_get(st, key)
    IN  IF IsNone(existing) THEN st
        ELSE StorePut(st, key,
                [data |-> [Val(existing) EXCEPT !.concurrent_run_ids = @ \ {run_id}],
                 expire_at |-> None])

\* the modify step of the three read-modify-write operations on the data
\* read; op is [name, run_id, cost, input_tokens, output_tokens, model_name,
\* tool_name]
store_modify(op, data) ==
    CASE op.name = "increment_run_count" ->
            [data EXCEPT !.total_runs = @ + 1,
                         !.concurrent_run_ids = @ \cup {op.run_id}]
      [] op.name = "remove_concurrent_run" ->
            [data EXCEPT !.concurrent_run_ids = @ \ {op.run_id}]
      [] op.name = "increment_cost" ->
            [data EXCEPT
                !.total_cost = @ + op.cost,
                !.total_input_tokens = @ + op.input_tokens,
                !.total_output_tokens = @ + op.output_tokens,
                !.model_costs =
                    IF op.model_name # <<>>
                    THEN StorePut(@, op.model_name,
                                  (IF op.model_name \in DOMAIN @
                                   THEN @[op.model_name] ELSE 0) + op.cost)
                    ELSE @,
                !.tool_costs =
                    IF op.tool_name # <<>>
                    THEN StorePut(@, op.tool_name,
                                  (IF op.tool_name \in DOMAIN @
                                   THEN @[op.tool_name] ELSE 0) + op.cost)
                    ELSE @,
                !.total_tool_calls = IF op.tool_name # <<>> THEN @ + 1 ELSE @]

\* what the operation returns for the data it wrote
store_returned(op, data) ==
    CASE op.name = "increment_run_count" -> Some(data.total_runs)
      [] op.name = "remove_concurrent_run" -> Some(Cardinality(data.concurrent_run_ids))
      [] op.name = "increment_cost" -> Some(data)

\* the pipeline's SET of an attempt that met no conflict: the entry is
\* written back without an expiry
store_write_back(st, key, data) ==
    StorePut(st, key, [data |-> data, expire_at |-> None])

\* (a variant that writes what it read last when its attempts are used up)
RECURSIVE store_retry_forcing(_, _, _, _, _)
store_retry_forcing(st, key, op, rivals, attempts) ==
    IF key \notin DOMAIN st
    THEN [st |-> st, result |-> None, attempts |-> attempts + 1]
    ELSE IF attempts = 3
    THEN [st |-> store_write_back(st, key, store_modify(op, st[key].data)),
          result |-> None, attempts |-> attempts]
    ELSE IF rivals = <<>>
    THEN [st |-> store_write_back(st, key, store_modify(op, st[key].data)),
          result |-> store_returned(op, store_modify(op, st[key].data)),
          attempts |-> attempts + 1]
    ELSE store_retry_forcing(
            store_write_back(st, key, store_modify(Head(rivals), st[key].data)),
            key, op, Tail(rivals), attempts + 1)

\* increment_cost, increment_run_count, remove_concurrent_run: the loop
\* `for _ in range(3)` after `attempts` attempts, while other clients write
\* the key: each of `rivals` is the operation of another client that is
\* written between this attempt's read and its execute, which then raises
\* WatchError and the loop goes on.  -> [st, result (None: soft failure),
\* attempts made]
RECURSIVE store_retry(_, _, _, _, _)
store_retry(st, key, op, rivals, attempts) ==
    IF attempts = 3
    THEN [st |-> st, result |-> None, attempts |-> attempts]
    ELSE IF key \notin DOMAIN st
    THEN [st |-> st, result |-> None, attempts |-> attempts + 1]
    ELSE IF rivals = <<>>
    THEN [st |-> store_write_back(st, key, store_modify(op, st[key].data)),
          result |-> store_returned(op, store_modify(op, st[key].data)),
          attempts |-> attempts + 1]
    ELSE store_retry(
            store_write_back(st, key, store_modify(Head(rivals), st[key].data)),
            key, op, Tail(rivals), attempts + 1)

\* the server's eviction as the clock reaches t
Evict(st, t) ==
    LET live == {k \in DOMAIN st : ~(IsSome(st[k].expire_at) /\ Val(st[k].expire_at) <= t)}
    IN  [k \in live |-> st[k]]

---------------------------------------------------------------------------
(* Budget tracker: core/budget_tracker.py.  The operators below thread the  *)
(* tracker's mutable state as a record T = [bs |-> _budget_states,           *)
(* st |-> the store's keyspace].                                            *)

\* BudgetTracker._get_scope_key
get_scope_key(budget, ctx) ==
    CASE budget.scope = "global" -> <<"global">> \o budget.id
      [] budget.scope = "tenant" -> <<"tenant">> \o ctx.tenant_id \o budget.id
      [] budget.scope = "strand" ->
            <<"strand">> \o ctx.tenant_id \o ctx.strand_id \o budget.id
      [] budget.scope = "workflow" ->
            <<"workflow">> \o ctx.tenant_id \o ctx.strand_id \o ctx.workflow_id
                \o budget.id
      [] OTHER -> <<"unknown">> \o budget.id

\* a utilization that counts a budget without max_cost as used up
utilization_or_full(state) ==
    IF IsNone(state.budget.max_cost) \/ Val(state.budget.max_cost) <= 0
    THEN <<1, 1>>
    ELSE <<state.usage.total_cost, Val(state.budget.max_cost)>>

\* BudgetState.utilization, as <<total_cost, max_cost>> (0.0 is <<0, 1>>)
utilization(state) ==
    IF IsNone(state.budget.max_cost) \/ Val(state.budget.max_cost) <= 0
    THEN <<0, 1>>
    ELSE <<state.usage.total_cost, Val(state.budget.max_cost)>>

\* BudgetState.remaining_budget
remaining_budget(state) ==
    IF IsNone(state.budget.max_cost) THEN None
    ELSE Some(Max(0, Val(state.budget.max_cost) - state.usage.total_cost))

\* BudgetState.concurrent_runs
concurrent_runs(state) == Cardinality(state.active_runs)

\* (a variant that lets the period run one instant longer)
is_period_expired_late(state) == now > state.usage.period_end

\* BudgetState.is_period_expired
is_period_expired(state) == now >= state.usage.period_end

\* BudgetState.reset_for_new_period
reset_for_new_period(state) ==
    LET be == get_period_boundaries(state.budget.period, now)
    IN  [state EXCEPT !.usage =
            NewPeriodUsage(state.budget.scope, state.budget.id, be[1], be[2])]

\* BudgetTracker._persist_state
persist_state(st, key, state) ==
    IF ~config.use_store THEN st
    ELSE store_set(st, key,
            [budget_id |-> state.budget.id,
             scope_key |-> key,
             period_start |-> state.usage.period_start,
             period_end |-> state.usage.period_end,
             total_cost |-> state.usage.total_cost,
             total_runs |-> state.usage.total_runs,
             total_input_tokens |-> state.usage.total_input_tokens,
             total_output_tokens |-> state.usage.total_output_tokens,
             total_iterations |-> state.usage.total_iterations,
             total_tool_calls |-> state.usage.total_tool_calls,
             model_costs |-> state.usage.model_costs,
             tool_costs |-> state.usage.tool_costs,
             concurrent_run_ids |-> state.active_runs],
            Some(state.usage.period_end))

\* The operators below hand every intermediate result on as a parameter of a
\* helper operator (the next statements of the method), so that it is
\* computed once.

\* get_or_create_budget_state, lines 166-185: the BudgetState built from the
\* BudgetStateData p the store returned
BudgetStateFromData(budget, p) ==
    [budget |-> budget,
     usage |-> [scope_type |-> budget.scope,
                scope_id |-> budget.id,
                period_start |-> p.period_start,
                period_end |-> p.period_end,
                total_cost |-> p.total_cost,
                total_runs |-> p.total_runs,
                concurrent_runs |-> Cardinality(p.concurrent_run_ids),
                total_input_tokens |-> p.total_input_tokens,
                total_output_tokens |-> p.total_output_tokens,
                total_iterations |-> p.total_iterations,
                total_tool_calls |-> p.total_tool_calls,
                model_costs |-> p.model_costs,
                tool_costs |-> p.tool_costs],
     active_runs |-> p.concurrent_run_ids]

\* get_or_create_budget_state, the branch of an expired state: reset, persist
goc_reset(T, key, fresh) ==
    [bs |-> [T.bs EXCEPT ![key] = fresh], st |-> persist_state(T.st, key, fresh)]

\* get_or_create_budget_state, the branch that hydrates from the store;
\* got = store.get_or_create(...)
goc_hydrate(T, key, budget, got) ==
    [bs |-> StorePut(T.bs, key, BudgetStateFromData(budget, got.data)), st |-> got.st]

\* get_or_create_budget_state, the branches that create the state;
\* be = get_period_boundaries(budget.period)
goc_create(T, key, budget, be) ==
    IF config.use_store
    THEN goc_hydrate(T, key, budget,
                     store_get_or_create(T.st, key, budget.id, be[1], be[2]))
    ELSE [bs |-> StorePut(T.bs, key,
                    [budget |-> budget,
                     usage |-> NewPeriodUsage(budget.scope, budget.id, be[1], be[2]),
                     active_runs |-> {}]),
          st |-> T.st]

\* get_or_create_budget_state for the scope key `key` of the budget
goc_key(T, key, budget) ==
    IF key \in DOMAIN T.bs
    THEN IF is_period_expired(T.bs[key])
         THEN goc_reset(T, key, reset_for_new_period(T.bs[key]))
         ELSE T
    ELSE goc_create(T, key, budget, get_period_boundaries(budget.period, now))

\* BudgetTracker.get_or_create_budget_state: the tracker after the call; the
\* state it returns is bs[get_scope_key(budget, ctx)] of the result
get_or_create_budget_state(T, budget, ctx) ==
    goc_key(T, get_scope_key(budget, ctx), budget)

\* get_or_create_budget_state for every budget of a list, in order
RECURSIVE get_or_create_all(_, _, _)
get_or_create_all(T, budgets, ctx) ==
    IF budgets = <<>> THEN T
    ELSE get_or_create_all(get_or_create_budget_state(T, Head(budgets), ctx),
                           Tail(budgets), ctx)

\* (a variant that counts the run in total_runs as it registers)
register_run_key_counting(T, run_id, key) ==
    [bs |-> IF key \in DOMAIN T.bs
            THEN [T.bs EXCEPT ![key] =
                    [@ EXCEPT !.active_runs = @ \cup {run_id},
                              !.usage.total_runs = @ + 1]]
            ELSE T.bs,
     st |-> T.st]

\* register_run's loop body for the scope key `key`
register_run_key(T, run_id, key) ==
    [bs |-> IF key \in DOMAIN T.bs
            THEN [T.bs EXCEPT ![key] =
                    [@ EXCEPT !.active_runs = @ \cup {run_id},
                              !.usage.concurrent_runs =
                                  Cardinality(T.bs[key].active_runs \cup {run_id})]]
            ELSE T.bs,
     st |-> IF config.use_store
            THEN store_increment_run_count(T.st, key, run_id)
            ELSE T.st]

\* BudgetTracker.register_run: its loop over the budgets (the caller stores
\* the RunState in _run_states)
RECURSIVE register_run(_, _, _, _)
register_run(T, run_id, ctx, budgets) ==
    IF budgets = <<>> THEN T
    ELSE register_run(register_run_key(T, run_id, get_scope_key(Head(budgets), ctx)),
                      run_id, ctx, Tail(budgets))

\* unregister_run, lines 264-269: the BudgetState after the run left it
unregister_state(state, rs) ==
    [state EXCEPT
        !.active_runs = @ \ {rs.context.run_id},
        !.usage = add_run_cost(
            [@ EXCEPT !.concurrent_runs =
                 Cardinality(state.active_runs \ {rs.context.run_id})], rs)]

\* unregister_run, lines 263-269, for a key that is in _budget_states
unregister_commit(T, key, state) ==
    [bs |-> [T.bs EXCEPT ![key] = state], st |-> persist_state(T.st, key, state)]

\* unregister_run, lines 272-273
unregister_store(T, key, run_id) ==
    [bs |-> T.bs,
     st |-> IF config.use_store
            THEN store_remove_concurrent_run(T.st, key, run_id)
            ELSE T.st]

\* unregister_run's loop body for the scope key `key`
unregister_run_key(T, rs, key) ==
    unregister_store(
        IF key \in DOMAIN T.bs
        THEN unregister_commit(T, key, unregister_state(T.bs[key], rs))
        ELSE T,
        key, rs.context.run_id)

\* BudgetTracker.unregister_run: its loop over the budgets, for a run that
\* has a RunState rs (the caller pops it from _run_states)
RECURSIVE unregister_run(_, _, _)
unregister_run(T, rs, budgets) ==
    IF budgets = <<>> THEN T
    ELSE unregister_run(
            unregister_run_key(T, rs, get_scope_key(Head(budgets), rs.context)),
            rs, Tail(budgets))

\* update_run_cost, lines 299-300: if model_name and model_cost > 0
update_model_cost(rs, model_name, model_cost, input_tokens, output_tokens) ==
    IF IsSome(model_name) /\ Val(model_name) # <<>> /\ model_cost > 0
    THEN add_model_cost(rs, Val(model_name), model_cost, input_tokens, output_tokens)
    ELSE rs

\* update_run_cost, lines 302-303: if tool_name
update_tool_cost(rs, tool_name, tool_cost) ==
    IF IsSome(tool_name) /\ Val(tool_name) # <<>>
    THEN add_tool_cost(rs, Val(tool_name), tool_cost)
    ELSE rs

\* BudgetTracker.update_run_cost: the RunState map after the call
update_run_cost(rss, run_id, model_name, model_cost, input_tokens, output_tokens, tool_name, tool_cost) ==
    IF run_id \notin DOMAIN rss THEN rss
    ELSE [rss EXCEPT ![run_id] =
            update_tool_cost(
                update_model_cost(@, model_name, model_cost, input_tokens,
                                  output_tokens),
                tool_name, tool_cost)]

\* the limit a budget state exceeds, as check_budget_limits tests them in
\* order: None, or the kind of the first limit hit
exceeded_limit(budget, state) ==
    IF Truthy(budget.max_cost) /\ UtilGE(utilization(state), 100) /\ budget.hard_limit
    THEN Some("hard limit exceeded")
    ELSE IF Truthy(budget.max_runs_per_period)
            /\ state.usage.total_runs >= Val(budget.max_runs_per_period)
    THEN Some("max runs exceeded")
    ELSE IF Truthy(budget.max_concurrent_runs)
            /\ concurrent_runs(state) >= Val(budget.max_concurrent_runs)
    THEN Some("max concurrent runs exceeded")
    ELSE None

\* exceeded.append((budget, state, reason)) when a limit is hit; a reason is
\* <<kind, budget id>>
exceeded_entry(budget, key, hit) ==
    IF IsSome(hit)
    THEN <<[budget |-> budget, key |-> key, reason |-> <<Val(hit), budget.id>>]>>
    ELSE <<>>

\* the entries of one budget put before those of the budgets after it
exceeded_cons(entry, rest) ==
    [T |-> rest.T, exceeded |-> entry \o rest.exceeded]

\* BudgetTracker.check_budget_limits -> [T |-> tracker, exceeded |-> list of
\* [budget, key, reason]]
RECURSIVE check_budget_limits(_, _, _)
RECURSIVE check_budget_limits_from(_, _, _, _)
check_budget_limits(T, ctx, budgets) ==
    IF budgets = <<>> THEN [T |-> T, exceeded |-> <<>>]
    ELSE check_budget_limits_from(
            get_or_create_budget_state(T, Head(budgets), ctx),
            ctx, budgets, get_scope_key(Head(budgets), ctx))

\* check_budget_limits once the first budget's state T1.bs[key] is at hand
check_budget_limits_from(T1, ctx, budgets, key) ==
    exceeded_cons(
        exceeded_entry(Head(budgets), key, exceeded_limit(Head(budgets), T1.bs[key])),
        check_budget_limits(T1, ctx, Tail(budgets)))

---------------------------------------------------------------------------
(* Pricing: pricing/table.py.  Rates are per 1000 tokens.                   *)

gpt_4 == <<"g", "p", "t", "-", "4">>
gpt_4_turbo == gpt_4 \o <<"-", "t", "u", "r", "b", "o">>
gpt_4o == gpt_4 \o <<"o">>
gpt_4o_mini == gpt_4o \o <<"-", "m", "i", "n", "i">>
gpt_4o_dated == gpt_4o \o <<"-", "0", "8">>
llama_local == <<"l", "l", "a", "m", "a">>

\* ModelPricing(model_name, input_per_1k, output_per_1k): the optional rates
\* default to None
ModelPricing(model_name, input_per_1k, output_per_1k) ==
    [model_name |-> model_name,
     input_per_1k |-> input_per_1k,
     output_per_1k |-> output_per_1k,
     cached_input_per_1k |-> None,
     reasoning_per_1k |-> None]

\* DEFAULT_MODEL_PRICING, its first entries in dict order (_load_defaults)
DefaultModels ==
    << ModelPricing(gpt_4, 30 * USD, 60 * USD),
       ModelPricing(gpt_4_turbo, 10 * USD, 30 * USD),
       ModelPricing(gpt_4o, (5 * USD) \div 2, 10 * USD),
       ModelPricing(gpt_4o_mini, (15 * USD) \div 100, (60 * USD) \div 100) >>

\* PricingTable(): models in dict order, tools, fallback rates
DefaultPricingTable ==
    [models |-> DefaultModels,
     tools |-> EmptyDict,
     fallback_input_per_1k |-> 1 * USD,
     fallback_output_per_1k |-> 3 * USD]

\* str.startswith
StartsWith(name, prefix) ==
    /\ Len(prefix) <= Len(name)
    /\ SubSeq(name, 1, Len(prefix)) = prefix

\* PricingTable.get_model_pricing
get_model_pricing(table, model_name) ==
    LET exact == {i \in 1..Len(table.models) : table.models[i].model_name = model_name}
        prefixed == {i \in 1..Len(table.models) :
                        StartsWith(model_name, table.models[i].model_name)}
        first(S) == CHOOSE i \in S : \A j \in S : i <= j
    IN  IF exact # {} THEN table.models[first(exact)]
        ELSE IF prefixed # {} THEN table.models[first(prefixed)]
        ELSE ModelPricing(model_name, table.fallback_input_per_1k,
                          table.fallback_output_per_1k)

\* (tokens / 1000) * rate
PerThousand(tokens, rate) == (tokens * rate) \div 1000

\* ModelPricing.calculate_cost
calculate_cost(pricing, prompt_tokens, completion_tokens, cached_tokens, reasoning_tokens) ==
    LET standard_input_tokens == Max(0, prompt_tokens - cached_tokens)
        input_cost ==
            PerThousand(standard_input_tokens, pricing.input_per_1k)
            + (IF cached_tokens > 0 /\ IsSome(pricing.cached_input_per_1k)
               THEN PerThousand(cached_tokens, Val(pricing.cached_input_per_1k))
               ELSE 0)
        output_cost == PerThousand(completion_tokens, pricing.output_per_1k)
        reasoning_cost ==
            IF reasoning_tokens > 0 /\ IsSome(pricing.reasoning_per_1k)
            THEN PerThousand(reasoning_tokens, Val(pricing.reasoning_per_1k))
            ELSE 0
    IN  input_cost + output_cost + reasoning_cost

\* PricingTable.calculate_model_cost
calculate_model_cost(table, usage) ==
    calculate_cost(get_model_pricing(table, usage.model_name),
                   usage.prompt_tokens, usage.completion_tokens,
                   usage.cached_tokens, usage.reasoning_tokens)

\* PricingTable.estimate_model_cost(model_name, estimated_input_tokens)
estimate_model_cost(table, model_name, estimated_input_tokens) ==
    LET pricing == get_model_pricing(table, model_name)
    IN  PerThousand(estimated_input_tokens, pricing.input_per_1k)
        + PerThousand(0, pricing.output_per_1k)

\* PricingTable.calculate_tool_cost (get_tool_pricing: zero when unknown)
calculate_tool_cost(table, usage) ==
    IF usage.tool_name \in DOMAIN table.tools
    THEN LET tp == table.tools[usage.tool_name]
         IN  tp.cost_per_call
             + usage.input_size_bytes * tp.cost_per_input_byte
             + usage.output_size_bytes * tp.cost_per_output_byte
    ELSE 0

---------------------------------------------------------------------------
(* Routing policies: policies/routing.py *)

\* a trigger that looks at the iteration count before the budget signals
should_downgrade_iteration_first(trigger, soft_threshold_exceeded, remaining, iteration_count, avg_latency_ms) ==
    IF IsSome(trigger.iteration_count_above)
       /\ iteration_count > Val(trigger.iteration_count_above)
    THEN Some("iteration count above threshold")
    ELSE IF trigger.soft_threshold_exceeded /\ soft_threshold_exceeded
    THEN Some("soft budget threshold exceeded")
    ELSE IF IsSome(trigger.remaining_budget_below) /\ IsSome(remaining)
            /\ Val(remaining) < Val(trigger.remaining_budget_below)
    THEN Some("remaining budget below threshold")
    ELSE IF IsSome(trigger.latency_above_ms) /\ IsSome(avg_latency_ms)
            /\ Val(avg_latency_ms) > Val(trigger.latency_above_ms)
    THEN Some("average latency above threshold")
    ELSE None

\* DowngradeTrigger.should_downgrade -> Optional reason
should_downgrade(trigger, soft_threshold_exceeded, remaining, iteration_count, avg_latency_ms) ==
    IF trigger.soft_threshold_exceeded /\ soft_threshold_exceeded
    THEN Some("soft budget threshold exceeded")
    ELSE IF IsSome(trigger.remaining_budget_below) /\ IsSome(remaining)
            /\ Val(remaining) < Val(trigger.remaining_budget_below)
    THEN Some("remaining budget below threshold")
    ELSE IF IsSome(trigger.iteration_count_above)
            /\ iteration_count > Val(trigger.iteration_count_above)
    THEN Some("iteration count above threshold")
    ELSE IF IsSome(trigger.latency_above_ms) /\ IsSome(avg_latency_ms)
            /\ Val(avg_latency_ms) > Val(trigger.latency_above_ms)
    THEN Some("average latency above threshold")
    ELSE None

\* StageConfig.get_effective_model -> <<model, was_downgraded, reason>>
get_effective_model(sc, soft_threshold_exceeded, remaining, iteration_count, avg_latency_ms) ==
    LET why == should_downgrade(sc.trigger_downgrade_on, soft_threshold_exceeded,
                                remaining, iteration_count, avg_latency_ms)
    IN  IF IsSome(sc.fallback_model) /\ Val(sc.fallback_model) # <<>> /\ IsSome(why)
        THEN <<Val(sc.fallback_model), TRUE, Val(why)>>
        ELSE <<sc.default_model, FALSE, "">>

\* RoutingPolicy.matches_context
routing_matches_context(rp, ctx) ==
    /\ rp.enabled
    /\ BudgetMatch_matches(rp.match, ctx.tenant_id, ctx.strand_id, ctx.workflow_id)

\* RoutingPolicy.get_stage_config -> Optional StageConfig
get_stage_config(rp, stage) ==
    LET hits == {i \in 1..Len(rp.stages) : rp.stages[i].stage = stage}
    IN  IF hits = {} THEN None
        ELSE Some(rp.stages[CHOOSE i \in hits : \A j \in hits : i <= j])

\* RoutingPolicy.get_model_for_stage -> <<model, max_tokens, was_downgraded, reason>>
get_model_for_stage(rp, stage, soft_threshold_exceeded, remaining, iteration_count, avg_latency_ms) ==
    LET sc == get_stage_config(rp, stage)
    IN  IF IsSome(sc)
        THEN LET m == get_effective_model(Val(sc), soft_threshold_exceeded,
                                          remaining, iteration_count,
                                          avg_latency_ms)
             IN  <<m[1], Val(sc).max_tokens, m[2], m[3]>>
        ELSE <<rp.default_model, None, FALSE, "">>

\* RoutingPolicy.specificity_score
routing_specificity_score(rp) ==
    (IF rp.match.tenant_id # Wild THEN 1 ELSE 0)
    + (IF rp.match.strand_id # Wild THEN 2 ELSE 0)
    + (IF rp.match.workflow_id # Wild THEN 4 ELSE 0)

\* self._routing_policies.sort(key=lambda r: r.specificity_score(),
\* reverse=True): a stable sort, descending by score
RECURSIVE InsertBySpecificity(_, _)
InsertBySpecificity(sorted, x) ==
    IF sorted = <<>> THEN <<x>>
    ELSE IF routing_specificity_score(Head(sorted)) >= routing_specificity_score(x)
         THEN <<Head(sorted)>> \o InsertBySpecificity(Tail(sorted), x)
         ELSE <<x>> \o sorted
RECURSIVE SortBySpecificity(_)
SortBySpecificity(s) ==
    IF s = <<>> THEN <<>>
    ELSE InsertBySpecificity(SortBySpecificity(SubSeq(s, 1, Len(s) - 1)), s[Len(s)])

\* PolicyStore.refresh on a successful load of routing_data
refresh_routing(routing_data) == SortBySpecificity(routing_data)

\* a lookup that returns the last matching policy of the sorted list
get_routing_policy_last(ctx) ==
    LET hits == {i \in 1..Len(policy.routing_policies) :
                    routing_matches_context(policy.routing_policies[i], ctx)}
    IN  IF hits = {} THEN None
        ELSE Some(policy.routing_policies[CHOOSE i \in hits : \A j \in hits : i >= j])

\* PolicyStore.get_routing_policy -> Optional RoutingPolicy
get_routing_policy(ctx) ==
    LET hits == {i \in 1..Len(policy.routing_policies) :
                    routing_matches_context(policy.routing_policies[i], ctx)}
    IN  IF hits = {} THEN None
        ELSE Some(policy.routing_policies[CHOOSE i \in hits : \A j \in hits : i <= j])

---------------------------------------------------------------------------
(* Cost guard: core/cost_guard.py.  A hook is an operator that gives the    *)
(* hook's whole outcome, the value it returns and the state it leaves, and  *)
(* an action that installs that state.                                      *)

\* RunContext.create
RunContext_create(ctx, run_id) ==
    [tenant_id |-> ctx.tenant_id, strand_id |-> ctx.strand_id,
     workflow_id |-> ctx.workflow_id, run_id |-> run_id]

\* the tracker's state as the hooks thread it
Tracker == [bs |-> budget_states, st |-> store]

\* AdmissionDecision.admit / AdmissionDecision.reject
AdmissionDecision_admit(remaining, util, warnings) ==
    [allowed |-> TRUE, reason |-> None, action |-> "allow",
     remaining_budget |-> remaining, budget_utilization |-> util,
     warnings |-> warnings]
AdmissionDecision_reject(reason) ==
    [allowed |-> FALSE, reason |-> Some(reason), action |-> "reject",
     remaining_budget |-> None, budget_utilization |-> None, warnings |-> <<>>]

\* on_run_start, lines 126-136: one budget's share of remaining, utilization
\* and warnings, its state at hand; acc = [T, remaining, utilization, warnings]
admit_step(acc, budget, T1, state) ==
    [T |-> T1,
     remaining |->
        IF Truthy(budget.max_cost)
           /\ (IsNone(acc.remaining)
               \/ (Truthy(remaining_budget(state))
                   /\ Val(remaining_budget(state)) < Val(acc.remaining)))
        THEN remaining_budget(state) ELSE acc.remaining,
     utilization |->
        IF Truthy(budget.max_cost)
           /\ (IsNone(acc.remaining)
               \/ (Truthy(remaining_budget(state))
                   /\ Val(remaining_budget(state)) < Val(acc.remaining)))
        THEN Some(utilization(state)) ELSE acc.utilization,
     warnings |->
        IF get_current_threshold_action(budget, utilization(state))
              \notin {None, Some("LOG_ONLY")}
        THEN Append(acc.warnings, budget.id) ELSE acc.warnings]

\* admit_step on the state get_or_create_budget_state left in T1
admit_at(acc, budget, T1, key) == admit_step(acc, budget, T1, T1.bs[key])

\* on_run_start's loop "Calculate remaining budget and utilization"
RECURSIVE admit_loop(_, _, _)
admit_loop(acc, budgets, ctx) ==
    IF budgets = <<>> THEN acc
    ELSE admit_loop(
            admit_at(acc, Head(budgets),
                     get_or_create_budget_state(acc.T, Head(budgets), ctx),
                     get_scope_key(Head(budgets), ctx)),
            Tail(budgets), ctx)

\* on_run_start, lines 138-144: the admission, acc being the loop's result
admit_result(acc, rss, rb) ==
    [decision |-> AdmissionDecision_admit(acc.remaining, acc.utilization, acc.warnings),
     T |-> acc.T, rss |-> rss, rb |-> rb]

\* (a variant that keeps every exceeded budget, whatever its action)
rejecting_entries_any(exceeded) == exceeded

\* the entries of `exceeded` whose budget rejects new runs
rejecting_entries(exceeded) ==
    SelectSeq(exceeded,
              LAMBDA e : e.budget.on_hard_limit_exceeded = "REJECT_NEW_RUNS")

\* on_run_start, lines 113-144: the run is registered and admitted
on_run_start_admitted(ctx, run_id, budgets, chk) ==
    admit_result(
        admit_loop([T |-> register_run(chk.T, run_id,
                                       RunContext_create(ctx, run_id), budgets),
                    remaining |-> None, utilization |-> None,
                    warnings |-> <<>>],
                   budgets, ctx),
        StorePut(run_states, run_id, NewRunState(RunContext_create(ctx, run_id))),
        StorePut(run_budgets, run_id, budgets))

\* (a variant that registers the run before it rejects it)
on_run_start_registering(ctx, run_id, budgets, chk) ==
    IF rejecting_entries(chk.exceeded) # <<>>
    THEN [on_run_start_admitted(ctx, run_id, budgets, chk)
             EXCEPT !.decision = AdmissionDecision_reject(
                                    Head(rejecting_entries(chk.exceeded)).reason)]
    ELSE on_run_start_admitted(ctx, run_id, budgets, chk)

\* on_run_start, lines 107-144, chk being check_budget_limits' result
on_run_start_checked(ctx, run_id, budgets, chk) ==
    IF rejecting_entries(chk.exceeded) # <<>>
    THEN [decision |-> AdmissionDecision_reject(
                            Head(rejecting_entries(chk.exceeded)).reason),
          T |-> chk.T, rss |-> run_states,
          rb |-> StorePut(run_budgets, run_id, budgets)]
    ELSE on_run_start_admitted(ctx, run_id, budgets, chk)

\* on_run_start, lines 91-144, budgets being the applicable budgets
on_run_start_with(ctx, run_id, budgets) ==
    IF ~config.enable_budget_enforcement
    THEN [decision |-> AdmissionDecision_admit(None, None, <<>>),
          T |-> register_run(Tracker, run_id, RunContext_create(ctx, run_id), budgets),
          rss |-> StorePut(run_states, run_id,
                           NewRunState(RunContext_create(ctx, run_id))),
          rb |-> StorePut(run_budgets, run_id, budgets)]
    ELSE on_run_start_checked(ctx, run_id, budgets,
                              check_budget_limits(Tracker, ctx, budgets))

\* CostGuard.on_run_start -> [decision, T, rss, rb]: the AdmissionDecision it
\* returns, and the tracker, _run_states and _run_budgets it leaves
on_run_start_result(ctx, run_id) ==
    on_run_start_with(ctx, run_id, get_budgets_for_context(ctx))

\* the scope keys a context's budgets resolve to
scope_keys(budgets, ctx) ==
    {get_scope_key(budgets[i], ctx) : i \in 1..Len(budgets)}

\* CostGuard.on_run_start(tenant_id, strand_id, workflow_id, run_id)
on_run_start(ctx, run_id) ==
    /\ run_id \notin ended
    /\ admits[run_id] < MaxAdmits
    /\ \E res \in {on_run_start_result(ctx, run_id)} :
        /\ budget_states' = res.T.bs
        /\ store' = res.T.st
        /\ run_states' = res.rss
        /\ run_budgets' = res.rb
        /\ registered' =
             IF res.decision.allowed
             THEN registered \cup
                  {<<k, run_id>> : k \in scope_keys(get_budgets_for_context(ctx), ctx)}
             ELSE registered
        /\ admits' = IF res.decision.allowed
                     THEN [admits EXCEPT ![run_id] = @ + 1] ELSE admits
    /\ UNCHANGED <<now, config, policy, ended,
                   refresher, outcome, thread, peer>>

\* CostGuard.on_run_end -> the tracker it leaves
on_run_end_result(run_id) ==
    IF run_id \in DOMAIN run_states
    THEN unregister_run(Tracker, run_states[run_id], DictGet(run_budgets, run_id, <<>>))
    ELSE Tracker

\* CostGuard.on_run_end(run_id, status)
on_run_end(run_id) ==
    /\ \E T1 \in {on_run_end_result(run_id)} :
        /\ budget_states' = T1.bs
        /\ store' = T1.st
    /\ run_budgets' = StoreDrop(run_budgets, run_id)
    /\ run_states' = StoreDrop(run_states, run_id)
    /\ registered' = IF run_id \in DOMAIN run_states
                     THEN {p \in registered : p[2] # run_id} ELSE registered
    /\ ended' = IF run_id \in DOMAIN run_states THEN ended \cup {run_id} ELSE ended
    /\ UNCHANGED <<now, config, policy, admits,
                   refresher, outcome, thread, peer>>

\* CostGuardConfig.default_max_iterations_per_run
default_max_iterations_per_run == 50
\* CostGuardConfig.default_max_tool_calls_per_run
default_max_tool_calls_per_run == 100

\* x if x is not None else default
OrDefault(o, default) == IF IsNone(o) THEN default ELSE Val(o)
\* x or default
OrElse(o, default) == IF Truthy(o) THEN Val(o) ELSE default

\* the least of the numbers of a list, None for an empty list
RECURSIVE LeastOf(_, _)
LeastOf(nums, acc) ==
    IF nums = <<>> THEN acc
    ELSE LeastOf(Tail(nums),
                 IF IsNone(acc) \/ Head(nums) < Val(acc) THEN Some(Head(nums)) ELSE acc)

\* the first index of a non-empty set of indices
FirstOf(S) == CHOOSE i \in S : \A j \in S : i <= j

\* IterationDecision.proceed / IterationDecision.halt
IterationDecision_proceed(remaining_iterations, warnings) ==
    [allowed |-> TRUE, reason |-> None, action |-> "allow",
     force_terminate_run |-> FALSE,
     remaining_iterations |-> remaining_iterations, warnings |-> warnings]
IterationDecision_halt(reason) ==
    [allowed |-> FALSE, reason |-> Some(reason), action |-> "halt",
     force_terminate_run |-> TRUE,
     remaining_iterations |-> None, warnings |-> <<>>]

\* a loop step that lets the run go on whatever the utilization
iteration_step_unhalting(acc, budget, T1, u) ==
    [T |-> T1, halted |-> None,
     warnings |-> IF IsSome(get_current_threshold_action(budget, u))
                  THEN Append(acc.warnings, budget.id)
                  ELSE acc.warnings]

\* before_iteration, lines 206-216: one budget of the loop "Check budget
\* utilization", u being its state's utilization;
\* acc = [T, halted (Optional budget id), warnings]
iteration_step(acc, budget, T1, u) ==
    IF is_hard_limit_exceeded(budget, u) /\ budget.on_hard_limit_exceeded = "HALT_RUN"
    THEN [T |-> T1, halted |-> Some(budget.id), warnings |-> acc.warnings]
    ELSE [T |-> T1, halted |-> None,
          warnings |-> IF IsSome(get_current_threshold_action(budget, u))
                       THEN Append(acc.warnings, budget.id)
                       ELSE acc.warnings]

\* iteration_step on the state get_or_create_budget_state left in T1
iteration_at(acc, budget, T1, key) ==
    iteration_step(acc, budget, T1, utilization(T1.bs[key]))

\* before_iteration's loop "Check budget utilization": it returns at the
\* first budget that halts
RECURSIVE iteration_budget_loop(_, _, _)
iteration_budget_loop(acc, budgets, ctx) ==
    IF budgets = <<>> \/ IsSome(acc.halted) THEN acc
    ELSE iteration_budget_loop(
            iteration_at(acc, Head(budgets),
                         get_or_create_budget_state(acc.T, Head(budgets), ctx),
                         get_scope_key(Head(budgets), ctx)),
            Tail(budgets), ctx)

\* a before_iteration that halts only once iteration_idx has passed the limit
over_iteration_limit_strict(budgets, iteration_idx) ==
    {i \in 1..Len(budgets) :
        iteration_idx > OrDefault(budgets[i].constraints.max_iterations_per_run,
                                  default_max_iterations_per_run)}

\* before_iteration, lines 187-194: the budgets whose iteration limit
\* iteration_idx has reached
over_iteration_limit(budgets, iteration_idx) ==
    {i \in 1..Len(budgets) :
        iteration_idx >= OrDefault(budgets[i].constraints.max_iterations_per_run,
                                   default_max_iterations_per_run)}

\* before_iteration, lines 219-224: remaining iterations
remaining_iterations(budgets, iteration_idx) ==
    LeastOf([i \in 1..Len(budgets) |->
                OrElse(budgets[i].constraints.max_iterations_per_run,
                       default_max_iterations_per_run) - iteration_idx], None)

\* before_iteration, lines 196-228, acc being the budget loop's result
before_iteration_checked(budgets, iteration_idx, acc) ==
    IF IsSome(acc.halted)
    THEN [decision |-> IterationDecision_halt(
                          <<"hard limit exceeded during run", Val(acc.halted)>>),
          T |-> acc.T]
    ELSE [decision |-> IterationDecision_proceed(
                          remaining_iterations(budgets, iteration_idx), acc.warnings),
          T |-> acc.T]

\* before_iteration, lines 183-228, for a run that has a RunState rs
before_iteration_of(rs, budgets, iteration_idx) ==
    IF over_iteration_limit(budgets, iteration_idx) # {}
    THEN [decision |-> IterationDecision_halt(
              <<"max iterations exceeded",
                OrDefault(budgets[FirstOf(over_iteration_limit(budgets, iteration_idx))]
                              .constraints.max_iterations_per_run,
                          default_max_iterations_per_run)>>),
          T |-> Tracker]
    ELSE before_iteration_checked(budgets, iteration_idx,
            IF config.enable_budget_enforcement
            THEN iteration_budget_loop(
                    [T |-> Tracker, halted |-> None, warnings |-> <<>>],
                    budgets, rs.context)
            ELSE [T |-> Tracker, halted |-> None, warnings |-> <<>>])

\* a before_iteration that halts the runs it does not know
before_iteration_result_strict(run_id, iteration_idx) ==
    IF run_id \notin DOMAIN run_states
    THEN [decision |-> IterationDecision_halt(<<"unknown run", run_id>>),
          T |-> Tracker]
    ELSE before_iteration_of(run_states[run_id], DictGet(run_budgets, run_id, <<>>),
                             iteration_idx)

\* CostGuard.before_iteration -> [decision, T]
before_iteration_result(run_id, iteration_idx) ==
    IF run_id \notin DOMAIN run_states
    THEN [decision |-> IterationDecision_proceed(None, <<>>), T |-> Tracker]
    ELSE before_iteration_of(run_states[run_id], DictGet(run_budgets, run_id, <<>>),
                             iteration_idx)

\* CostGuard.before_iteration(run_id, iteration_idx)
before_iteration(run_id, iteration_idx) ==
    /\ \E res \in {before_iteration_result(run_id, iteration_idx)} :
        /\ budget_states' = res.T.bs
        /\ store' = res.T.st
    /\ UNCHANGED <<now, config, policy, run_states, run_budgets, registered,
                   ended, admits,
                   refresher, outcome, thread, peer>>

\* CostGuard.after_iteration(run_id, iteration_idx, usage)
after_iteration(run_id, iteration_idx) ==
    /\ run_states' =
         IF run_id \in DOMAIN run_states
         THEN [run_states EXCEPT ![run_id].current_iteration = iteration_idx + 1]
         ELSE run_states
    /\ UNCHANGED <<now, config, policy, budget_states, run_budgets, store,
                   registered, ended, admits,
                   refresher, outcome, thread, peer>>

\* CostGuard.after_model_call(run_id, usage): the cost recorded for the usage
model_usage_cost(usage) ==
    IF usage.cost = 0 THEN calculate_model_cost(policy.pricing, usage) ELSE usage.cost

\* CostGuard.after_model_call -> the RunState map it leaves
after_model_call_result(run_id, usage) ==
    update_run_cost(run_states, run_id, Some(usage.model_name),
                    model_usage_cost(usage), usage.prompt_tokens,
                    usage.completion_tokens, None, 0)

\* CostGuard.after_model_call(run_id, usage)
after_model_call(run_id, usage) ==
    /\ run_states' = after_model_call_result(run_id, usage)
    /\ UNCHANGED <<now, config, policy, budget_states, run_budgets, store,
                   registered, ended, admits,
                   refresher, outcome, thread, peer>>

\* CostGuard.after_tool_call(run_id, tool_name, cost_metadata): the cost
\* recorded for the call
tool_usage_cost(usage) ==
    IF usage.cost = 0 THEN calculate_tool_cost(policy.pricing, usage) ELSE usage.cost

\* CostGuard.after_tool_call(run_id, tool_name, cost_metadata)
after_tool_call(run_id, usage) ==
    /\ run_states' = update_run_cost(run_states, run_id, None, 0, 0, 0,
                                     Some(usage.tool_name), tool_usage_cost(usage))
    /\ UNCHANGED <<now, config, policy, budget_states, run_budgets, store,
                   registered, ended, admits,
                   refresher, outcome, thread, peer>>

\* a routing loop that takes any crossed threshold for the downgrade signal
routing_step_any_action(acc, budget, T1, state) ==
    [T |-> T1,
     soft |-> acc.soft
              \/ IsSome(get_current_threshold_action(budget, utilization(state))),
     remaining |->
        IF IsSome(remaining_budget(state))
           /\ (IsNone(acc.remaining)
               \/ Val(remaining_budget(state)) < Val(acc.remaining))
        THEN remaining_budget(state) ELSE acc.remaining]

\* before_model_call, lines 299-305: one budget under a routing policy, its
\* state at hand; acc = [T, soft (soft_threshold_exceeded), remaining]
routing_step(acc, budget, T1, state) ==
    [T |-> T1,
     soft |-> acc.soft
              \/ get_current_threshold_action(budget, utilization(state))
                    = Some("DOWNGRADE_MODEL"),
     remaining |->
        IF IsSome(remaining_budget(state))
           /\ (IsNone(acc.remaining)
               \/ Val(remaining_budget(state)) < Val(acc.remaining))
        THEN remaining_budget(state) ELSE acc.remaining]

\* routing_step on the state get_or_create_budget_state left in T1
routing_at(acc, budget, T1, key) == routing_step(acc, budget, T1, T1.bs[key])

\* before_model_call's loop over the budgets under a routing policy
RECURSIVE routing_budget_loop(_, _, _)
routing_budget_loop(acc, budgets, ctx) ==
    IF budgets = <<>> THEN acc
    ELSE routing_budget_loop(
            routing_at(acc, Head(budgets),
                       get_or_create_budget_state(acc.T, Head(budgets), ctx),
                       get_scope_key(Head(budgets), ctx)),
            Tail(budgets), ctx)

\* a token check that caps max_tokens but never rejects
token_limit_step_capping(acc, max_run_tokens, remaining_tokens) ==
    [rejected |-> None,
     max_tokens |->
        IF IsNone(acc.max_tokens) \/ remaining_tokens < Val(acc.max_tokens)
        THEN Some(remaining_tokens) ELSE acc.max_tokens]

\* before_model_call, lines 319-324: one budget's token limit, the run's
\* remaining tokens at hand; acc = [rejected (Optional limit), max_tokens]
token_limit_step(acc, max_run_tokens, remaining_tokens) ==
    IF remaining_tokens <= 0
    THEN [rejected |-> Some(max_run_tokens), max_tokens |-> acc.max_tokens]
    ELSE [rejected |-> None,
          max_tokens |->
             IF IsNone(acc.max_tokens) \/ remaining_tokens < Val(acc.max_tokens)
             THEN Some(remaining_tokens) ELSE acc.max_tokens]

\* before_model_call's loop "Check token limits": it returns at the first
\* budget whose limit is used up
RECURSIVE token_limit_loop(_, _, _)
token_limit_loop(acc, budgets, rs) ==
    IF budgets = <<>> \/ IsSome(acc.rejected) THEN acc
    ELSE token_limit_loop(
            IF Truthy(Head(budgets).constraints.max_model_tokens_per_run)
            THEN token_limit_step(acc,
                    Val(Head(budgets).constraints.max_model_tokens_per_run),
                    Val(Head(budgets).constraints.max_model_tokens_per_run)
                        - rs.total_input_tokens - rs.total_output_tokens)
            ELSE acc,
            Tail(budgets), rs)

\* before_model_call, lines 336-341: one budget of the loop "Estimate cost and
\* check budget", its state's remaining budget at hand; acc = [T, warnings]
estimate_step(acc, budget, T1, rem, estimated_cost) ==
    [T |-> T1,
     warnings |-> IF IsSome(rem) /\ estimated_cost > Val(rem)
                  THEN Append(acc.warnings, budget.id)
                  ELSE acc.warnings]

\* estimate_step on the state get_or_create_budget_state left in T1
estimate_at(acc, budget, T1, key, estimated_cost) ==
    estimate_step(acc, budget, T1, remaining_budget(T1.bs[key]), estimated_cost)

\* before_model_call's loop "Estimate cost and check budget"
RECURSIVE estimate_loop(_, _, _, _)
estimate_loop(acc, budgets, ctx, estimated_cost) ==
    IF budgets = <<>> THEN acc
    ELSE estimate_loop(
            estimate_at(acc, Head(budgets),
                        get_or_create_budget_state(acc.T, Head(budgets), ctx),
                        get_scope_key(Head(budgets), ctx), estimated_cost),
            Tail(budgets), ctx, estimated_cost)

\* ModelDecision.allow / ModelDecision.downgrade / ModelDecision.reject
ModelDecision_allow(effective_model, max_tokens, warnings) ==
    [allowed |-> TRUE, reason |-> None, action |-> "allow",
     effective_model |-> Some(effective_model), max_tokens |-> max_tokens,
     was_downgraded |-> FALSE, warnings |-> warnings]
ModelDecision_downgrade(original_model, fallback_model, reason, max_tokens) ==
    [allowed |-> TRUE, reason |-> Some(reason), action |-> "downgrade",
     effective_model |-> Some(fallback_model), max_tokens |-> max_tokens,
     was_downgraded |-> TRUE, warnings |-> <<original_model>>]
ModelDecision_reject(reason) ==
    [allowed |-> FALSE, reason |-> Some(reason), action |-> "reject",
     effective_model |-> None, max_tokens |-> None,
     was_downgraded |-> FALSE, warnings |-> <<>>]

\* before_model_call, lines 343-356: the decision, eacc being the estimate
\* loop's result
model_call_decided(model_name, choice, max_tokens, eacc) ==
    IF choice[3]
    THEN [decision |-> ModelDecision_downgrade(model_name, choice[1], choice[4],
                                               max_tokens),
          T |-> eacc.T]
    ELSE [decision |-> ModelDecision_allow(choice[1], max_tokens, eacc.warnings),
          T |-> eacc.T]

\* before_model_call, lines 316-356, tacc being the token loop's result
model_call_limited(rs, budgets, model_name, prompt_tokens_estimate, T1, choice, tacc) ==
    IF IsSome(tacc.rejected)
    THEN [decision |-> ModelDecision_reject(
                          <<"token limit exceeded", Val(tacc.rejected)>>),
          T |-> T1]
    ELSE model_call_decided(model_name, choice, tacc.max_tokens,
            IF prompt_tokens_estimate > 0 /\ config.enable_budget_enforcement
            THEN estimate_loop([T |-> T1, warnings |-> <<>>], budgets, rs.context,
                    estimate_model_cost(policy.pricing, choice[1],
                                        prompt_tokens_estimate))
            ELSE [T |-> T1, warnings |-> <<>>])

\* before_model_call, lines 316-356, choice being <<effective_model,
\* max_tokens, was_downgraded, downgrade_reason>>
model_call_routed(rs, budgets, model_name, prompt_tokens_estimate, T1, choice) ==
    model_call_limited(rs, budgets, model_name, prompt_tokens_estimate, T1, choice,
        token_limit_loop([rejected |-> None, max_tokens |-> choice[2]], budgets, rs))

\* before_model_call, lines 307-356, racc being the routing loop's result
model_call_policy(rs, budgets, model_name, stage, prompt_tokens_estimate, routing_policy, racc) ==
    model_call_routed(rs, budgets, model_name, prompt_tokens_estimate, racc.T,
        get_model_for_stage(routing_policy, stage, racc.soft, racc.remaining,
                            rs.current_iteration, None))

\* before_model_call, lines 272-356, routing_policy being the Optional policy
\* that get_routing_policy returned (None with routing disabled)
model_call_of(rs, budgets, model_name, stage, prompt_tokens_estimate, routing_policy) ==
    IF IsSome(routing_policy)
    THEN model_call_policy(rs, budgets, model_name, stage, prompt_tokens_estimate,
            Val(routing_policy),
            routing_budget_loop([T |-> Tracker, soft |-> FALSE, remaining |-> None],
                                budgets, rs.context))
    ELSE model_call_routed(rs, budgets, model_name, prompt_tokens_estimate, Tracker,
                           <<model_name, None, FALSE, "">>)

\* CostGuard.before_model_call -> [decision, T]
before_model_call_result(run_id, model_name, stage, prompt_tokens_estimate) ==
    IF run_id \notin DOMAIN run_states
    THEN [decision |-> ModelDecision_allow(model_name, None, <<>>), T |-> Tracker]
    ELSE model_call_of(run_states[run_id], DictGet(run_budgets, run_id, <<>>),
            model_name, stage, prompt_tokens_estimate,
            IF config.enable_routing
            THEN get_routing_policy(run_states[run_id].context)
            ELSE None)

\* CostGuard.before_model_call(run_id, model_name, stage, prompt_tokens_estimate)
before_model_call(run_id, model_name, stage, prompt_tokens_estimate) ==
    /\ \E res \in {before_model_call_result(run_id, model_name, stage,
                                            prompt_tokens_estimate)} :
        /\ budget_states' = res.T.bs
        /\ store' = res.T.st
    /\ UNCHANGED <<now, config, policy, run_states, run_budgets, registered,
                   ended, admits,
                   refresher, outcome, thread, peer>>

\* ToolDecision.allow / ToolDecision.reject
ToolDecision_allow(remaining_tool_calls, warnings) ==
    [allowed |-> TRUE, reason |-> None, action |-> "allow",
     skip_tool_call |-> FALSE,
     remaining_tool_calls |-> remaining_tool_calls, warnings |-> warnings]
ToolDecision_reject(reason) ==
    [allowed |-> FALSE, reason |-> Some(reason), action |-> "reject",
     skip_tool_call |-> TRUE,
     remaining_tool_calls |-> None, warnings |-> <<>>]

\* a before_tool_call that rejects only once the run has passed the limit
over_tool_call_limit_strict(budgets, rs) ==
    {i \in 1..Len(budgets) :
        rs.total_tool_calls > OrDefault(budgets[i].constraints.max_tool_calls_per_run,
                                        default_max_tool_calls_per_run)}

\* before_tool_call, lines 418-425: the budgets whose tool call limit the run
\* has reached
over_tool_call_limit(budgets, rs) ==
    {i \in 1..Len(budgets) :
        rs.total_tool_calls >= OrDefault(budgets[i].constraints.max_tool_calls_per_run,
                                         default_max_tool_calls_per_run)}

\* before_tool_call, lines 412-435, for a run that has a RunState rs
before_tool_call_of(rs, budgets) ==
    IF over_tool_call_limit(budgets, rs) # {}
    THEN ToolDecision_reject(
            <<"max tool calls exceeded",
              OrDefault(budgets[FirstOf(over_tool_call_limit(budgets, rs))]
                            .constraints.max_tool_calls_per_run,
                        default_max_tool_calls_per_run)>>)
    ELSE ToolDecision_allow(
            LeastOf([i \in 1..Len(budgets) |->
                        OrElse(budgets[i].constraints.max_tool_calls_per_run,
                               default_max_tool_calls_per_run)
                        - rs.total_tool_calls], None),
            <<>>)

\* CostGuard.before_tool_call -> the ToolDecision
before_tool_call_result(run_id, tool_name) ==
    IF run_id \notin DOMAIN run_states THEN ToolDecision_allow(None, <<>>)
    ELSE before_tool_call_of(run_states[run_id], DictGet(run_budgets, run_id, <<>>))

\* CostGuard.before_tool_call(run_id, tool_name): it changes no state
before_tool_call(run_id, tool_name) ==
    /\ before_tool_call_result(run_id, tool_name).allowed \in BOOLEAN
    /\ UNCHANGED vars

\* CostGuard.get_run_cost(run_id): the run's total_cost, None for a run
\* without a RunState
get_run_cost(run_id) ==
    IF run_id \in DOMAIN run_states THEN Some(run_states[run_id].total_cost) ELSE None

\* CostGuard.get_budget_summary(tenant_id, strand_id, workflow_id)
get_budget_summary(ctx) ==
    /\ \E T1 \in {get_or_create_all(Tracker, get_budgets_for_context(ctx), ctx)} :
        /\ budget_states' = T1.bs
        /\ store' = T1.st
    /\ UNCHANGED <<now, config, policy, run_states, run_budgets, registered,
                   ended, admits,
                   refresher, outcome, thread, peer>>

---------------------------------------------------------------------------
(* The inputs the hooks are called with, and the policy files loaded.       *)

RunIds == {"r1", "r2"}

\* the contexts runs are started in and summaries are asked for
Contexts ==
    {[tenant_id |-> <<"t1">>, strand_id |-> <<"s1">>, workflow_id |-> <<"w1">>]}

\* ModelUsage(model_name, prompt_tokens, completion_tokens): cost, cached and
\* reasoning tokens default to 0
ModelUsage(model_name, prompt_tokens, completion_tokens) ==
    [model_name |-> model_name, prompt_tokens |-> prompt_tokens,
     completion_tokens |-> completion_tokens, cost |-> 0,
     cached_tokens |-> 0, reasoning_tokens |-> 0]

\* the usages reported to after_model_call: one priced from the table, one
\* whose prompt was served from the cache, one that brings its own cost
ModelUsages ==
    {ModelUsage(gpt_4o, 1000, 0),
     [ModelUsage(gpt_4o, 1000, 0) EXCEPT !.cached_tokens = 1000],
     [ModelUsage(llama_local, 0, 1000) EXCEPT !.cost = 5 * USD]}

\* ToolUsage(tool_name): cost and sizes default to 0
ToolUsage(tool_name) ==
    [tool_name |-> tool_name, cost |-> 0,
     input_size_bytes |-> 0, output_size_bytes |-> 0]

ToolUsages == {ToolUsage(<<"search">>)}

ModelNames == {gpt_4o_dated}
Stages == {"planning", "other"}
PromptEstimates == {0, 1000}

\* a budgets file: a global budget of two dollars an hour, a budget of
\* another tenant, and a tenant budget that caps the day's cost and allows one
\* concurrent run; all reject new runs
BudgetsFileA ==
    << [BudgetDefaults(<<"global-hourly">>) EXCEPT
            !.scope = "global", !.period = "hourly",
            !.max_cost = Some(2 * USD)],
       [BudgetDefaults(<<"other-tenant">>) EXCEPT
            !.scope = "tenant", !.period = "daily",
            !.match.tenant_id = <<"t2">>,
            !.max_concurrent_runs = Some(1)],
       [BudgetDefaults(<<"tenant-daily">>) EXCEPT
            !.scope = "tenant", !.period = "daily",
            !.max_cost = Some((5 * USD) \div 2),
            !.on_soft_threshold_exceeded = "DOWNGRADE_MODEL",
            !.max_concurrent_runs = Some(1)] >>

\* a budgets file: a tenant budget that halts runs and constrains them, and a
\* global budget of one run an hour whose cost cap is soft and whose
\* concurrency limit is zero
BudgetsFileB ==
    << [BudgetDefaults(<<"tenant-halt">>) EXCEPT
            !.scope = "tenant", !.period = "daily",
            !.max_cost = Some((5 * USD) \div 2),
            !.on_hard_limit_exceeded = "HALT_RUN",
            !.constraints = [max_iterations_per_run |-> Some(1),
                             max_tool_calls_per_run |-> Some(1),
                             max_model_tokens_per_run |-> Some(1000),
                             max_cost_per_run |-> None]],
       [BudgetDefaults(<<"global-soft">>) EXCEPT
            !.scope = "global", !.period = "hourly",
            !.max_cost = Some((5 * USD) \div 2),
            !.hard_limit = FALSE,
            !.max_runs_per_period = Some(1),
            !.max_concurrent_runs = Some(0)] >>

\* a budgets file: a strand budget that caps no cost and sets a token limit of
\* zero, a tenant budget of ten dollars a day that limits a run's tokens, and
\* a global budget of two dollars an hour that halts runs but whose cap is soft
BudgetsFileC ==
    << [BudgetDefaults(<<"strand-unmetered">>) EXCEPT
            !.scope = "strand", !.period = "daily",
            !.on_hard_limit_exceeded = "HALT_RUN",
            !.constraints = [max_iterations_per_run |-> None,
                             max_tool_calls_per_run |-> None,
                             max_model_tokens_per_run |-> Some(0),
                             max_cost_per_run |-> None]],
       [BudgetDefaults(<<"tenant-cap">>) EXCEPT
            !.scope = "tenant", !.period = "daily",
            !.max_cost = Some(10 * USD),
            !.constraints = [max_iterations_per_run |-> None,
                             max_tool_calls_per_run |-> None,
                             max_model_tokens_per_run |-> Some(1400),
                             max_cost_per_run |-> None]],
       [BudgetDefaults(<<"global-soft-halt">>) EXCEPT
            !.scope = "global", !.period = "hourly",
            !.max_cost = Some(2 * USD),
            !.hard_limit = FALSE,
            !.on_hard_limit_exceeded = "HALT_RUN"] >>

\* a budgets file: one tenant budget that downgrades models once a soft
\* threshold is crossed and limits a run's tokens
BudgetsFileD ==
    << [BudgetDefaults(<<"tenant-downgrade">>) EXCEPT
            !.scope = "tenant", !.period = "daily",
            !.max_cost = Some((5 * USD) \div 2),
            !.on_soft_threshold_exceeded = "DOWNGRADE_MODEL",
            !.constraints = [max_iterations_per_run |-> None,
                             max_tool_calls_per_run |-> None,
                             max_model_tokens_per_run |-> Some(1000),
                             max_cost_per_run |-> None]] >>

\* a routing file: tenant t1 plans with gpt-4o and falls back to gpt-4o-mini
\* once a soft threshold is crossed
RoutingFileA ==
    << [id |-> <<"route-t1">>,
        match |-> [tenant_id |-> <<"t1">>, strand_id |-> Wild, workflow_id |-> Wild],
        stages |-> << [stage |-> "planning",
                       default_model |-> gpt_4o,
                       fallback_model |-> Some(gpt_4o_mini),
                       max_tokens |-> Some(500),
                       trigger_downgrade_on |->
                          [soft_threshold_exceeded |-> TRUE,
                           remaining_budget_below |-> None,
                           iteration_count_above |-> None,
                           latency_above_ms |-> None]] >>,
        default_model |-> gpt_4o_mini,
        enabled |-> TRUE] >>

\* a routing file: planning falls back once a soft threshold is crossed, any
\* other stage once less than a dollar remains
RoutingFileD ==
    << [id |-> <<"route-all">>,
        match |-> [tenant_id |-> Wild, strand_id |-> Wild, workflow_id |-> Wild],
        stages |-> << [stage |-> "planning",
                       default_model |-> gpt_4o,
                       fallback_model |-> Some(gpt_4o_mini),
                       max_tokens |-> None,
                       trigger_downgrade_on |->
                          [soft_threshold_exceeded |-> TRUE,
                           remaining_budget_below |-> None,
                           iteration_count_above |-> None,
                           latency_above_ms |-> None]],
                      [stage |-> "other",
                       default_model |-> gpt_4o,
                       fallback_model |-> Some(llama_local),
                       max_tokens |-> None,
                       trigger_downgrade_on |->
                          [soft_threshold_exceeded |-> FALSE,
                           remaining_budget_below |-> Some(USD),
                           iteration_count_above |-> None,
                           latency_above_ms |-> None]] >>,
        default_model |-> gpt_4o_mini,
        enabled |-> TRUE] >>

\* a pricing file that prices one tool: PricingTable.from_dict keeps the
\* default models when the file lists none
PricingFileA ==
    [DefaultPricingTable EXCEPT
        !.tools = [t \in {<<"search">>} |->
                     [cost_per_call |-> 2 * USD,
                      cost_per_input_byte |-> 0,
                      cost_per_output_byte |-> 0]]]

\* PolicyStore.refresh on a successful load
refresh(budget_data, routing_data, pricing_data) ==
    [budgets |-> refresh_budgets(budget_data),
     routing_policies |-> refresh_routing(routing_data),
     pricing |-> pricing_data,
     snapshot |-> Some([budgets |-> budget_data, routing |-> routing_data,
                        pricing |-> pricing_data])]

\* CostGuardConfig(enable_budget_enforcement, enable_routing) and whether a
\* budget_store is configured
CostGuardConfig(enforce, routing, use_store) ==
    [enable_budget_enforcement |-> enforce, enable_routing |-> routing,
     enable_metrics |-> TRUE, failure_mode |-> "fail_open",
     use_store |-> use_store]

PoliciesA == refresh(BudgetsFileA, RoutingFileA, PricingFileA)
PoliciesB == refresh(BudgetsFileB, <<>>, DefaultPricingTable)
PoliciesC == refresh(BudgetsFileC, RoutingFileA, PricingFileA)
PoliciesD == refresh(BudgetsFileD, RoutingFileD, PricingFileA)

\* the deployments the model starts from: a configuration and the policies loaded
Deployments ==
    {<<CostGuardConfig(TRUE, TRUE, FALSE), PoliciesA>>,
     <<CostGuardConfig(FALSE, FALSE, FALSE), PoliciesA>>,
     <<CostGuardConfig(TRUE, FALSE, TRUE), PoliciesA>>,
     <<CostGuardConfig(TRUE, TRUE, FALSE), PoliciesB>>,
     <<CostGuardConfig(FALSE, FALSE, FALSE), PoliciesB>>,
     <<CostGuardConfig(TRUE, TRUE, FALSE), PoliciesC>>,
     <<CostGuardConfig(TRUE, TRUE, FALSE), PoliciesD>>}

---------------------------------------------------------------------------
(* The state machine *)

\* no refresh is in progress
IdleRefresher ==
    [pc |-> "idle", budget_data |-> None, routing_data |-> None, result |-> "loaded"]

\* no second thread is inside on_run_start
IdleThread ==
    [pc |-> "idle", run_id |-> "", ctx |-> None, budgets |-> <<>>, next |-> 0,
     exceeded |-> <<>>, serial |-> <<>>, result |-> None]

\* a second process that has not touched the store
NoPeer == [bs |-> << >>, rss |-> << >>, rb |-> << >>, admits |-> 0, committed |-> << >>]

\* no hook has met a fault
NoOutcome == [fault |-> "none", raised |-> FALSE, decision |-> None, expected |-> None]

Init ==
    /\ now = StartTime
    /\ \E d \in Deployments : config = d[1] /\ policy = d[2]
    /\ budget_states = EmptyDict
    /\ run_states = EmptyDict
    /\ run_budgets = EmptyDict
    /\ store = EmptyDict
    /\ registered = {}
    /\ ended = {}
    /\ admits = [run_id \in RunIds |-> 0]
    /\ refresher = IdleRefresher
    /\ outcome = NoOutcome
    /\ thread = IdleThread
    /\ peer = NoPeer

\* the wall clock advances; the store's server evicts the keys whose expiry
\* time has come
Tick ==
    /\ now < StartTime + MaxTicks
    /\ now' = now + 1
    /\ store' = Evict(store, now + 1)
    /\ UNCHANGED <<config, policy, budget_states, run_states, run_budgets,
                   registered, ended, admits,
                   refresher, outcome, thread, peer>>

\* the tokens and tool calls a run has accrued stay within the bounds
WithinTokens(run_id, usage) ==
    run_id \in DOMAIN run_states =>
        run_states[run_id].total_input_tokens + run_states[run_id].total_output_tokens
            + usage.prompt_tokens + usage.completion_tokens <= MaxRunTokens
WithinToolCalls(run_id) ==
    run_id \in DOMAIN run_states =>
        run_states[run_id].total_tool_calls < MaxRunToolCalls

Next ==
    \/ Tick
    \/ \E ctx \in Contexts, run_id \in RunIds : on_run_start(ctx, run_id)
    \/ \E run_id \in RunIds : on_run_end(run_id)
    \/ \E run_id \in RunIds, idx \in 0..MaxIterationIdx : before_iteration(run_id, idx)
    \/ \E run_id \in RunIds, idx \in 0..MaxIterationIdx : after_iteration(run_id, idx)
    \/ \E run_id \in RunIds, m \in ModelNames, s \in Stages, e \in PromptEstimates :
            before_model_call(run_id, m, s, e)
    \/ \E run_id \in RunIds, usage \in ModelUsages :
            WithinTokens(run_id, usage) /\ after_model_call(run_id, usage)
    \/ \E run_id \in RunIds, usage \in ToolUsages :
            before_tool_call(run_id, usage.tool_name)
    \/ \E run_id \in RunIds, usage \in ToolUsages :
            WithinToolCalls(run_id) /\ after_tool_call(run_id, usage)
    \/ \E ctx \in Contexts : get_budget_summary(ctx)

Spec == Init /\ [][Next]_vars

---------------------------------------------------------------------------
(* The policy store under many policy files *)

\* the contexts the store is asked about
StoreContexts ==
    {[tenant_id |-> <<"t1">>, strand_id |-> <<"s1">>, workflow_id |-> <<"w1">>],
     [tenant_id |-> <<"t2">>, strand_id |-> <<"s1">>, workflow_id |-> <<"w1">>]}

\* the budgets the budget files are made of: two global budgets alike but for
\* their id, a tenant budget of tenant t1, a strand budget of any strand, and
\* a disabled workflow budget
StoreBudgets ==
    {[BudgetDefaults(<<"global-a">>) EXCEPT !.scope = "global"],
     [BudgetDefaults(<<"global-b">>) EXCEPT !.scope = "global"],
     [BudgetDefaults(<<"tenant-t1">>) EXCEPT
          !.scope = "tenant", !.match.tenant_id = <<"t1">>],
     [BudgetDefaults(<<"any-strand">>) EXCEPT !.scope = "strand"],
     [BudgetDefaults(<<"workflow-off">>) EXCEPT
          !.scope = "workflow", !.match.workflow_id = <<"w1">>,
          !.enabled = FALSE]}

\* RoutingPolicy(id, match, stages, default_model, enabled)
RoutingPolicy(id, tenant_id, stages, default_model, enabled) ==
    [id |-> id,
     match |-> [tenant_id |-> tenant_id, strand_id |-> Wild, workflow_id |-> Wild],
     stages |-> stages, default_model |-> default_model, enabled |-> enabled]

\* StageConfig(stage, default_model): no fallback, no max_tokens, no triggers
StageConfig(stage, default_model) ==
    [stage |-> stage, default_model |-> default_model,
     fallback_model |-> None, max_tokens |-> None,
     trigger_downgrade_on |-> [soft_threshold_exceeded |-> FALSE,
                               remaining_budget_below |-> None,
                               iteration_count_above |-> None,
                               latency_above_ms |-> None]]

\* the routing policies the routing files are made of: one for every context
\* that plans with gpt-4, two for tenant t1 alike in specificity, of which
\* only the second configures a stage, and a disabled one for tenant t1
StoreRoutingPolicies ==
    {RoutingPolicy(<<"route-any">>, Wild,
                   <<StageConfig("planning", gpt_4)>>, gpt_4_turbo, TRUE),
     RoutingPolicy(<<"route-t1-a">>, <<"t1">>, <<>>, gpt_4o, TRUE),
     RoutingPolicy(<<"route-t1-b">>, <<"t1">>,
                   <<StageConfig("planning", gpt_4o_mini)>>, llama_local, TRUE),
     RoutingPolicy(<<"route-off">>, <<"t1">>, <<>>, gpt_4, FALSE)}

\* DowngradeTrigger(soft_threshold_exceeded, remaining_budget_below,
\* iteration_count_above, latency_above_ms)
DowngradeTrigger(soft, remaining_below, iteration_above, latency_above) ==
    [soft_threshold_exceeded |-> soft,
     remaining_budget_below |-> remaining_below,
     iteration_count_above |-> iteration_above,
     latency_above_ms |-> latency_above]

\* the routing policies with one planning stage of 500 tokens: every choice
\* of a fallback model and of the four downgrade triggers
TriggerPolicies ==
    {RoutingPolicy(<<"route-planning">>, Wild,
                   <<[StageConfig("planning", gpt_4o) EXCEPT
                         !.fallback_model = fallback,
                         !.max_tokens = Some(500),
                         !.trigger_downgrade_on =
                             DowngradeTrigger(soft, below, above, latency)]>>,
                   gpt_4_turbo, TRUE) :
        fallback \in {None, Some(gpt_4o_mini)},
        soft \in BOOLEAN,
        below \in {None, Some(3 * USD)},
        above \in {None, Some(2)},
        latency \in {None, Some(1000)}}

\* the lists of n distinct elements of a set
Arrangements(S, n) ==
    {f \in [1..n -> S] : \A i, j \in 1..n : f[i] = f[j] => i = j}

StoreBudgetFileLen == 4
StoreRoutingFileLen == 3

\* the policy files loaded: every budget file with no routing, every routing
\* file with no budgets, and every trigger policy on its own
StoreFiles ==
    {<<bf, <<>>>> : bf \in Arrangements(StoreBudgets, StoreBudgetFileLen)}
    \cup {<<<<>>, rf>> : rf \in Arrangements(StoreRoutingPolicies, StoreRoutingFileLen)}
    \cup {<<<<>>, <<rp>>>> : rp \in TriggerPolicies}

\* a guard with enforcement and routing on, after the store's first refresh
InitStore ==
    /\ now = StartTime
    /\ config = CostGuardConfig(TRUE, TRUE, FALSE)
    /\ \E f \in StoreFiles : policy = refresh(f[1], f[2], DefaultPricingTable)
    /\ budget_states = EmptyDict
    /\ run_states = EmptyDict
    /\ run_budgets = EmptyDict
    /\ store = EmptyDict
    /\ registered = {}
    /\ ended = {}
    /\ admits = [run_id \in RunIds |-> 0]
    /\ refresher = IdleRefresher
    /\ outcome = NoOutcome
    /\ thread = IdleThread
    /\ peer = NoPeer

\* one run at a time is admitted in some context, asks for models, and ends
NextStore ==
    \/ \E ctx \in StoreContexts : on_run_start(ctx, "r1")
    \/ \E m \in ModelNames, s \in Stages : before_model_call("r1", m, s, 0)
    \/ on_run_end("r1")

SpecStore == InitStore /\ [][NextStore]_vars

---------------------------------------------------------------------------
(* The policy store reloading: PolicyStore.refresh, statement by statement, *)
(* on one thread while hooks run on another.  The store has no lock, so a   *)
(* hook reads _budgets and _routing_policies as the refreshing thread left  *)
(* them at that instant.  The guard's pricing table is built once, when the *)
(* guard is constructed, and the hooks below read no pricing.               *)

\* what the source's three loads can return
RefreshBudgetData == {BudgetsFileA, BudgetsFileC}
RefreshRoutingData ==
    {RoutingFileA,
     <<RoutingPolicy(<<"route-any">>, Wild, <<>>, gpt_4_turbo, TRUE),
       RoutingPolicy(<<"route-t1">>, <<"t1">>, <<>>, gpt_4o, TRUE)>>}
RefreshPricingData == {DefaultPricingTable, PricingFileA}

\* PolicyStore's fields as the dataclass defaults leave them, before
\* __post_init__ has refreshed
UnloadedPolicyStore ==
    [budgets |-> <<>>, routing_policies |-> <<>>, pricing |-> EmptyDict,
     snapshot |-> None]

\* what a list shows to another thread while list.sort is at work on it:
\* CPython empties the list for the duration of the sort, and a thread that
\* comes before the sort has started finds the list as it was
visible_while_sorting(list) == {<<>>, list}

\* refresh, the except clause: the error is logged, and raised again only
\* when there is no snapshot
refresh_failed ==
    /\ refresher' = [refresher EXCEPT
                        !.pc = "idle",
                        !.result = IF IsSome(policy.snapshot) THEN "kept" ELSE "raised"]
    /\ UNCHANGED policy

\* refresh, lines 120-121: load_budgets, and _budgets bound to the new list
refresh_load_budgets ==
    /\ refresher.pc = "idle"
    /\ \/ \E budget_data \in RefreshBudgetData :
            /\ policy' = [policy EXCEPT !.budgets = budget_data]
            /\ refresher' = [pc |-> "budgets_assigned",
                             budget_data |-> Some(budget_data),
                             routing_data |-> None, result |-> "running"]
       \/ refresh_failed
    /\ UNCHANGED <<now, config, budget_states, run_states, run_budgets, store,
                   registered, ended, admits, outcome, thread, peer>>

\* refresh, line 122: _budgets.sort is entered
refresh_sort_budgets_begin ==
    /\ refresher.pc = "budgets_assigned"
    /\ \E seen \in visible_while_sorting(policy.budgets) :
            policy' = [policy EXCEPT !.budgets = seen]
    /\ refresher' = [refresher EXCEPT !.pc = "budgets_sorting"]
    /\ UNCHANGED <<now, config, budget_states, run_states, run_budgets, store,
                   registered, ended, admits, outcome, thread, peer>>

\* refresh, line 122: _budgets.sort returns
refresh_sort_budgets_end ==
    /\ refresher.pc = "budgets_sorting"
    /\ policy' = [policy EXCEPT !.budgets = refresh_budgets(Val(refresher.budget_data))]
    /\ refresher' = [refresher EXCEPT !.pc = "budgets_sorted"]
    /\ UNCHANGED <<now, config, budget_states, run_states, run_budgets, store,
                   registered, ended, admits, outcome, thread, peer>>

\* refresh, lines 124-125: load_routing_policies, and _routing_policies
\* bound to the new list
refresh_load_routing ==
    /\ refresher.pc = "budgets_sorted"
    /\ \/ \E routing_data \in RefreshRoutingData :
            /\ policy' = [policy EXCEPT !.routing_policies = routing_data]
            /\ refresher' = [refresher EXCEPT !.pc = "routing_assigned",
                                              !.routing_data = Some(routing_data)]
       \/ refresh_failed
    /\ UNCHANGED <<now, config, budget_states, run_states, run_budgets, store,
                   registered, ended, admits, outcome, thread, peer>>

\* refresh, line 126: _routing_policies.sort is entered
refresh_sort_routing_begin ==
    /\ refresher.pc = "routing_assigned"
    /\ \E seen \in visible_while_sorting(policy.routing_policies) :
            policy' = [policy EXCEPT !.routing_policies = seen]
    /\ refresher' = [refresher EXCEPT !.pc = "routing_sorting"]
    /\ UNCHANGED <<now, config, budget_states, run_states, run_budgets, store,
                   registered, ended, admits, outcome, thread, peer>>

\* refresh, line 126: _routing_policies.sort returns
refresh_sort_routing_end ==
    /\ refresher.pc = "routing_sorting"
    /\ policy' = [policy EXCEPT
                    !.routing_policies = refresh_routing(Val(refresher.routing_data))]
    /\ refresher' = [refresher EXCEPT !.pc = "routing_sorted"]
    /\ UNCHANGED <<now, config, budget_states, run_states, run_budgets, store,
                   registered, ended, admits, outcome, thread, peer>>

\* refresh, lines 128-135: load_pricing, and the snapshot of what was loaded
refresh_load_pricing ==
    /\ refresher.pc = "routing_sorted"
    /\ \/ \E pricing_data \in RefreshPricingData :
            /\ policy' = [policy EXCEPT
                            !.pricing = pricing_data,
                            !.snapshot = Some([budgets |-> Val(refresher.budget_data),
                                               routing |-> Val(refresher.routing_data),
                                               pricing |-> pricing_data])]
            /\ refresher' = [refresher EXCEPT !.pc = "idle", !.result = "loaded"]
       \/ refresh_failed
    /\ UNCHANGED <<now, config, budget_states, run_states, run_budgets, store,
                   registered, ended, admits, outcome, thread, peer>>

\* PolicyStore(source): the fields at their defaults, __post_init__ about to
\* refresh
InitRefresh ==
    /\ now = StartTime
    /\ config = CostGuardConfig(TRUE, TRUE, FALSE)
    /\ policy = UnloadedPolicyStore
    /\ budget_states = EmptyDict
    /\ run_states = EmptyDict
    /\ run_budgets = EmptyDict
    /\ store = EmptyDict
    /\ registered = {}
    /\ ended = {}
    /\ admits = [run_id \in RunIds |-> 0]
    /\ refresher = IdleRefresher
    /\ outcome = NoOutcome
    /\ thread = IdleThread
    /\ peer = NoPeer

\* the store exists once its first refresh has succeeded; a construction
\* that raised leaves no store behind
PolicyStoreConstructed == IsSome(policy.snapshot)

\* the refreshing thread takes its steps; once the store is constructed a run
\* is started, asks for a model and is ended on another thread
NextRefresh ==
    \/ refresher.result # "raised" /\ refresh_load_budgets
    \/ refresh_sort_budgets_begin
    \/ refresh_sort_budgets_end
    \/ refresh_load_routing
    \/ refresh_sort_routing_begin
    \/ refresh_sort_routing_end
    \/ refresh_load_pricing
    \/ PolicyStoreConstructed /\ \E ctx \in Contexts : on_run_start(ctx, "r1")
    \/ PolicyStoreConstructed /\ before_model_call("r1", gpt_4o_dated, "planning", 0)
    \/ PolicyStoreConstructed /\ on_run_end("r1")

SpecRefresh == InitRefresh /\ [][NextRefresh]_vars

\* the same, where the host ends every run it has started: on_run_end of a
\* live run is not put off forever
SpecRefreshEnding ==
    SpecRefresh /\ WF_vars(PolicyStoreConstructed /\ on_run_end("r1"))

---------------------------------------------------------------------------
(* The hooks under faults of their surroundings: a client error of the      *)
(* backing store, its optimistic transactions running out of retries, and a *)
(* metric instrument that raises.  CostGuardConfig.failure_mode is read by  *)
(* no code of the guard, the tracker or the store.                          *)

\* the faults a hook call can meet
Faults == {"none", "store_error", "store_conflict", "metric_error"}

\* on_run_start's first statement that talks to the store is
\* get_or_create_budget_state for the first budget, when that budget's state
\* is not in memory (store.get_or_create) or has run out (_persist_state)
on_run_start_meets_store(budgets, ctx) ==
    /\ config.use_store
    /\ config.enable_budget_enforcement
    /\ budgets # <<>>
    /\ get_scope_key(Head(budgets), ctx) \in DOMAIN budget_states
          => is_period_expired(budget_states[get_scope_key(Head(budgets), ctx)])

\* on_run_start when the client raises in that statement: no except clause
\* is on the way, so the hook raises with _run_budgets already written and a
\* state that ran out already reset in memory
on_run_start_store_error(ctx, run_id, budgets, key) ==
    [decision |-> None, raised |-> TRUE, admitted |-> FALSE,
     T |-> [bs |-> IF key \in DOMAIN budget_states
                   THEN [budget_states EXCEPT ![key] = reset_for_new_period(@)]
                   ELSE budget_states,
            st |-> store],
     rss |-> run_states,
     rb |-> StorePut(run_budgets, run_id, budgets)]

\* on_run_start when every increment_run_count of register_run runs out of
\* retries: it returns None, register_run goes on, and the store keeps what
\* check_budget_limits left in it; res is the hook's outcome without the fault
on_run_start_store_conflict(ctx, run_id, budgets, res) ==
    [decision |-> Some(res.decision), raised |-> FALSE,
     admitted |-> res.decision.allowed,
     T |-> [bs |-> res.T.bs,
            st |-> IF config.enable_budget_enforcement
                   THEN check_budget_limits(Tracker, ctx, budgets).T.st
                   ELSE store],
     rss |-> res.rss, rb |-> res.rb]

\* CostGuard.on_run_start under a fault -> [decision (None when it raised),
\* raised, admitted, T, rss, rb]; res is the hook's outcome without the
\* fault.  _emit_rejection_event and _emit_run_start come after the state is
\* written and have no except clause.
on_run_start_fault_result(ctx, run_id, fault, budgets, res) ==
    CASE fault = "store_error" ->
            on_run_start_store_error(ctx, run_id, budgets,
                                     get_scope_key(Head(budgets), ctx))
      [] fault = "store_conflict" ->
            on_run_start_store_conflict(ctx, run_id, budgets, res)
      [] fault = "metric_error" ->
            [decision |-> None, raised |-> TRUE, admitted |-> res.decision.allowed,
             T |-> res.T, rss |-> res.rss, rb |-> res.rb]
      [] OTHER ->
            [decision |-> Some(res.decision), raised |-> FALSE,
             admitted |-> res.decision.allowed,
             T |-> res.T, rss |-> res.rss, rb |-> res.rb]

\* the hook meets the fault only where it has something to fail at
on_run_start_can_meet(fault, budgets, ctx, res) ==
    CASE fault = "store_error" -> on_run_start_meets_store(budgets, ctx)
      [] fault = "store_conflict" ->
            /\ config.use_store
            /\ res.decision.allowed
            /\ res.T.st # on_run_start_store_conflict(ctx, "", budgets, res).T.st
      [] fault = "metric_error" ->
            config.enable_metrics /\ config.enable_budget_enforcement
      [] OTHER -> TRUE

\* CostGuard.on_run_start(tenant_id, strand_id, workflow_id, run_id) under a
\* fault
on_run_start_faulty(ctx, run_id, fault) ==
    /\ run_id \notin ended
    /\ admits[run_id] < MaxAdmits
    /\ on_run_start_can_meet(fault, get_budgets_for_context(ctx), ctx,
                             on_run_start_result(ctx, run_id))
    /\ \E res \in {on_run_start_fault_result(ctx, run_id, fault,
                        get_budgets_for_context(ctx),
                        on_run_start_result(ctx, run_id))} :
        /\ budget_states' = res.T.bs
        /\ store' = res.T.st
        /\ run_states' = res.rss
        /\ run_budgets' = res.rb
        /\ registered' =
             IF res.admitted
             THEN registered \cup
                  {<<k, run_id>> : k \in scope_keys(get_budgets_for_context(ctx), ctx)}
             ELSE registered
        /\ admits' = IF res.admitted THEN [admits EXCEPT ![run_id] = @ + 1] ELSE admits
        /\ outcome' = [fault |-> fault, raised |-> res.raised,
                       decision |-> res.decision,
                       expected |-> Some(on_run_start_result(ctx, run_id).decision)]
    /\ UNCHANGED <<now, config, policy, ended, refresher, thread, peer>>

\* CostGuard.after_tool_call under a fault: _emit_tool_cost is called for a
\* live run once the cost is on the RunState
after_tool_call_faulty(run_id, usage, fault) ==
    /\ fault = "metric_error" => config.enable_metrics /\ run_id \in DOMAIN run_states
    /\ run_states' = update_run_cost(run_states, run_id, None, 0, 0, 0,
                                     Some(usage.tool_name), tool_usage_cost(usage))
    /\ outcome' = [fault |-> fault, raised |-> fault = "metric_error",
                   decision |-> None, expected |-> None]
    /\ UNCHANGED <<now, config, policy, budget_states, run_budgets, store,
                   registered, ended, admits, refresher, thread, peer>>

\* CostGuard.on_run_end under a fault: _emit_run_end is called for a run that
\* was live once unregister_run has committed it
on_run_end_faulty(run_id, fault) ==
    /\ fault = "metric_error" => config.enable_metrics /\ run_id \in DOMAIN run_states
    /\ \E T1 \in {on_run_end_result(run_id)} :
        /\ budget_states' = T1.bs
        /\ store' = T1.st
    /\ run_budgets' = StoreDrop(run_budgets, run_id)
    /\ run_states' = StoreDrop(run_states, run_id)
    /\ registered' = IF run_id \in DOMAIN run_states
                     THEN {p \in registered : p[2] # run_id} ELSE registered
    /\ ended' = IF run_id \in DOMAIN run_states THEN ended \cup {run_id} ELSE ended
    /\ outcome' = [fault |-> fault, raised |-> fault = "metric_error",
                   decision |-> None, expected |-> None]
    /\ UNCHANGED <<now, config, policy, admits, refresher, thread, peer>>

\* a guard with a backing store, under either failure mode, with and without
\* metrics
InitFaults ==
    /\ now = StartTime
    /\ \E failure_mode \in {"fail_open", "fail_closed"}, enable_metrics \in BOOLEAN :
            config = [CostGuardConfig(TRUE, FALSE, TRUE) EXCEPT
                         !.failure_mode = failure_mode,
                         !.enable_metrics = enable_metrics]
    /\ policy = PoliciesA
    /\ budget_states = EmptyDict
    /\ run_states = EmptyDict
    /\ run_budgets = EmptyDict
    /\ store = EmptyDict
    /\ registered = {}
    /\ ended = {}
    /\ admits = [run_id \in RunIds |-> 0]
    /\ refresher = IdleRefresher
    /\ outcome = NoOutcome
    /\ thread = IdleThread
    /\ peer = NoPeer

NextFaults ==
    \/ Tick
    \/ \E ctx \in Contexts, run_id \in RunIds, fault \in Faults :
            on_run_start_faulty(ctx, run_id, fault)
    \/ \E run_id \in RunIds, usage \in ToolUsages, fault \in {"none", "metric_error"} :
            WithinToolCalls(run_id) /\ after_tool_call_faulty(run_id, usage, fault)
    \/ \E run_id \in RunIds, fault \in {"none", "metric_error"} :
            on_run_end_faulty(run_id, fault)

SpecFaults == InitFaults /\ [][NextFaults]_vars

---------------------------------------------------------------------------
(* The pricing table under many model names and token counts *)

\* the most tokens a priced run reports
MaxPricedTokens == 2000

\* a pricing file whose models are listed longest name first, with a
\* discounted rate for cached tokens, a rate for reasoning tokens and its own
\* fallback rates (PricingTable.from_dict)
PricingFileP ==
    [models |->
        << [ModelPricing(gpt_4o_mini, (15 * USD) \div 100, (60 * USD) \div 100)
                EXCEPT !.cached_input_per_1k = Some((5 * USD) \div 100)],
           [ModelPricing(gpt_4o, (5 * USD) \div 2, 10 * USD)
                EXCEPT !.cached_input_per_1k = Some((5 * USD) \div 4),
                       !.reasoning_per_1k = Some(10 * USD)],
           ModelPricing(gpt_4, 30 * USD, 60 * USD) >>,
     tools |-> EmptyDict,
     fallback_input_per_1k |-> 5 * USD,
     fallback_output_per_1k |-> 10 * USD]

\* the tables a guard is built with
PricingTables == {DefaultPricingTable, PricingFileP}

\* the model names asked for: known ones, dated variants of them, an
\* unknown one
PricedNames ==
    {gpt_4, gpt_4o, gpt_4o_dated, gpt_4o_mini \o <<"-", "0", "8">>, llama_local}

\* the usages reported: token counts of nothing or a thousand, the cached
\* tokens a part of the prompt
PricingUsages ==
    {[ModelUsage(m, p, c) EXCEPT !.cached_tokens = k, !.reasoning_tokens = r] :
        m \in PricedNames, p \in {0, 1000}, c \in {0, 1000},
        k \in {0, 1000}, r \in {0, 1000}}
    \ {[ModelUsage(m, 0, c) EXCEPT !.cached_tokens = 1000, !.reasoning_tokens = r] :
        m \in PricedNames, c \in {0, 1000}, r \in {0, 1000}}

\* a guard over one of the tables, without budgets
InitPricing ==
    /\ now = StartTime
    /\ config = CostGuardConfig(TRUE, FALSE, FALSE)
    /\ \E table \in PricingTables : policy = refresh(<<>>, <<>>, table)
    /\ budget_states = EmptyDict
    /\ run_states = EmptyDict
    /\ run_budgets = EmptyDict
    /\ store = EmptyDict
    /\ registered = {}
    /\ ended = {}
    /\ admits = [run_id \in RunIds |-> 0]
    /\ refresher = IdleRefresher
    /\ outcome = NoOutcome
    /\ thread = IdleThread
    /\ peer = NoPeer

\* the tokens a priced run has accrued stay within the bound, and a call
\* that reasons reads a prompt or writes a completion as well
WithinPricedTokens(run_id, usage) ==
    /\ usage.reasoning_tokens > 0 => usage.prompt_tokens + usage.completion_tokens > 0
    /\ run_id \in DOMAIN run_states =>
            run_states[run_id].total_input_tokens + run_states[run_id].total_output_tokens
                + usage.prompt_tokens + usage.completion_tokens <= MaxPricedTokens

NextPricing ==
    \/ \E ctx \in Contexts : on_run_start(ctx, "r1")
    \/ \E usage \in PricingUsages :
            WithinPricedTokens("r1", usage) /\ after_model_call("r1", usage)
    \/ on_run_end("r1")

SpecPricing == InitPricing /\ [][NextPricing]_vars

---------------------------------------------------------------------------
(* The budget periods at many reference times *)

\* BudgetPeriod
BudgetPeriods == {"hourly", "daily", "weekly", "monthly"}

\* the ticks the clock moves on from a start time
MaxPeriodTicks == 2

\* the first tick of the day that is `days` days after the epoch
DayStart(days) == days * TicksPerDay

\* the times the clock starts at, each one tick before a boundary: the end
\* of the first Sunday, of 29 February 2024, of 31 December 2024, and
\* 14:30 on 15 June 2024
PeriodStartTimes ==
    {DayStart(7) - 1, DayStart(60) - 1, DayStart(366) - 1,
     DayStart(166) + 14 * TicksPerHour + 1}

\* a budgets file with one global budget for each period
BudgetsFileP ==
    << [BudgetDefaults(<<"hourly">>) EXCEPT !.scope = "global", !.period = "hourly"],
       [BudgetDefaults(<<"daily">>) EXCEPT !.scope = "global", !.period = "daily"],
       [BudgetDefaults(<<"weekly">>) EXCEPT !.scope = "global", !.period = "weekly"],
       [BudgetDefaults(<<"monthly">>) EXCEPT !.scope = "global", !.period = "monthly"] >>

InitPeriods ==
    /\ now \in PeriodStartTimes
    /\ config = CostGuardConfig(TRUE, FALSE, TRUE)
    /\ policy = refresh(BudgetsFileP, <<>>, PricingFileA)
    /\ budget_states = EmptyDict
    /\ run_states = EmptyDict
    /\ run_budgets = EmptyDict
    /\ store = EmptyDict
    /\ registered = {}
    /\ ended = {}
    /\ admits = [run_id \in RunIds |-> 0]
    /\ refresher = IdleRefresher
    /\ outcome = NoOutcome
    /\ thread = IdleThread
    /\ peer = NoPeer

\* the clock moves on by a tick
TickPeriods ==
    /\ \E s \in PeriodStartTimes : s <= now /\ now < s + MaxPeriodTicks
    /\ now' = now + 1
    /\ store' = Evict(store, now + 1)
    /\ UNCHANGED <<config, policy, budget_states, run_states, run_budgets,
                   registered, ended, admits, refresher, outcome, thread, peer>>

NextPeriods ==
    \/ TickPeriods
    \/ \E ctx \in Contexts, run_id \in RunIds : on_run_start(ctx, run_id)
    \/ \E run_id \in RunIds, usage \in ToolUsages :
            WithinToolCalls(run_id) /\ after_tool_call(run_id, usage)
    \/ \E run_id \in RunIds : on_run_end(run_id)

SpecPeriods == InitPeriods /\ [][NextPeriods]_vars

---------------------------------------------------------------------------
(* Two threads of the host in the hooks.  BudgetTracker._lock is held by    *)
(* get_or_create_budget_state, register_run, unregister_run and             *)
(* update_run_cost for the length of one call; check_budget_limits and      *)
(* on_run_start hold no lock of their own, so another thread's hook can run *)
(* between two budgets of check_budget_limits' loop and between             *)
(* check_budget_limits and register_run.                                    *)

\* a budgets file: a global and a tenant budget that each allow one
\* concurrent run and reject new runs
BudgetsFileT ==
    << [BudgetDefaults(<<"global-slots">>) EXCEPT
            !.scope = "global", !.period = "daily",
            !.max_concurrent_runs = Some(1)],
       [BudgetDefaults(<<"tenant-slots">>) EXCEPT
            !.scope = "tenant", !.period = "daily",
            !.max_concurrent_runs = Some(1)] >>

InitThreads ==
    /\ now = StartTime
    /\ config = CostGuardConfig(TRUE, FALSE, FALSE)
    /\ policy = refresh(BudgetsFileT, <<>>, PricingFileA)
    /\ budget_states = EmptyDict
    /\ run_states = EmptyDict
    /\ run_budgets = EmptyDict
    /\ store = EmptyDict
    /\ registered = {}
    /\ ended = {}
    /\ admits = [run_id \in RunIds |-> 0]
    /\ refresher = IdleRefresher
    /\ outcome = NoOutcome
    /\ thread = IdleThread
    /\ peer = NoPeer

\* on_run_start, lines 91-95, in the second thread: the budgets are looked
\* up and bound to the run id; thread.serial keeps what check_budget_limits
\* would return were it to run now, in one piece
thread_on_run_start_begin(ctx, run_id) ==
    /\ thread.pc = "idle"
    /\ config.enable_budget_enforcement
    /\ run_id \notin ended
    /\ run_id \notin DOMAIN run_states
    /\ admits[run_id] < MaxAdmits
    /\ \E budgets \in {get_budgets_for_context(ctx)} :
        /\ run_budgets' = StorePut(run_budgets, run_id, budgets)
        /\ thread' = [pc |-> IF budgets = <<>> THEN "checked" ELSE "checking",
                      run_id |-> run_id, ctx |-> Some(ctx), budgets |-> budgets,
                      next |-> 1, exceeded |-> <<>>,
                      serial |-> <<check_budget_limits(Tracker, ctx, budgets).exceeded>>,
                      result |-> None]
    /\ UNCHANGED <<now, config, policy, budget_states, run_states, store,
                   registered, ended, admits, refresher, outcome, peer>>

\* one turn of check_budget_limits' loop for the budget and the state T1
\* that get_or_create_budget_state returned for it
thread_check_turn(budget, key, T1) ==
    /\ budget_states' = T1.bs
    /\ store' = T1.st
    /\ thread' = [thread EXCEPT
                    !.exceeded = @ \o exceeded_entry(budget, key,
                                                     exceeded_limit(budget, T1.bs[key])),
                    !.next = @ + 1,
                    !.pc = IF thread.next = Len(thread.budgets)
                           THEN "checked" ELSE "checking"]

\* check_budget_limits in the second thread: one turn of its loop
thread_check_budget ==
    /\ thread.pc = "checking"
    /\ thread_check_turn(
            thread.budgets[thread.next],
            get_scope_key(thread.budgets[thread.next], Val(thread.ctx)),
            get_or_create_budget_state(Tracker, thread.budgets[thread.next],
                                       Val(thread.ctx)))
    /\ UNCHANGED <<now, config, policy, run_states, run_budgets,
                   registered, ended, admits, refresher, outcome, peer>>

\* on_run_start, lines 107-144, in the second thread, on the list its
\* check_budget_limits returned
thread_on_run_start_end ==
    /\ thread.pc = "checked"
    /\ \E res \in {on_run_start_checked(Val(thread.ctx), thread.run_id, thread.budgets,
                        [T |-> Tracker, exceeded |-> thread.exceeded])} :
        /\ budget_states' = res.T.bs
        /\ store' = res.T.st
        /\ run_states' = res.rss
        /\ run_budgets' = res.rb
        /\ registered' =
             IF res.decision.allowed
             THEN registered \cup
                  {<<k, thread.run_id>> : k \in scope_keys(thread.budgets, Val(thread.ctx))}
             ELSE registered
        /\ admits' = IF res.decision.allowed
                     THEN [admits EXCEPT ![thread.run_id] = @ + 1] ELSE admits
        /\ thread' = [IdleThread EXCEPT !.result = Some(res.decision.allowed)]
    /\ UNCHANGED <<now, config, policy, ended, refresher, outcome, peer>>

\* CostGuard.on_run_end(run_id, status) in the first thread while the second
\* is inside check_budget_limits; thread.serial keeps what
\* check_budget_limits would return were it to run right after, in one piece
on_run_end_beside(run_id) ==
    /\ thread.pc = "checking"
    /\ Len(thread.serial) = 1
    /\ run_id \in DOMAIN run_states
    /\ \E T1 \in {on_run_end_result(run_id)} :
        /\ budget_states' = T1.bs
        /\ store' = T1.st
        /\ thread' = [thread EXCEPT !.serial =
                        Append(@, check_budget_limits(T1, Val(thread.ctx),
                                                      thread.budgets).exceeded)]
    /\ run_budgets' = StoreDrop(run_budgets, run_id)
    /\ run_states' = StoreDrop(run_states, run_id)
    /\ registered' = {p \in registered : p[2] # run_id}
    /\ ended' = ended \cup {run_id}
    /\ UNCHANGED <<now, config, policy, admits, refresher, outcome, peer>>

NextThreads ==
    \/ \E ctx \in Contexts, run_id \in RunIds :
            thread.pc # "checking" /\ on_run_start(ctx, run_id)
    \/ \E run_id \in RunIds : thread.pc # "checking" /\ on_run_end(run_id)
    \/ \E run_id \in RunIds, usage \in ToolUsages :
            WithinToolCalls(run_id) /\ after_tool_call(run_id, usage)
    \/ \E ctx \in Contexts, run_id \in RunIds : thread_on_run_start_begin(ctx, run_id)
    \/ thread_check_budget
    \/ thread_on_run_start_end
    \/ \E run_id \in RunIds : on_run_end_beside(run_id)

SpecThreads == InitThreads /\ [][NextThreads]_vars

---------------------------------------------------------------------------
(* The store's read-modify-write operations while other clients write *)

\* the most runs and tool calls an entry of the contended store counts
MaxStoreWrites == 5

\* the scope keys the store is called with
ContendedKeys == {<<"tenant", "t1", "b1">>}

\* StoreOp(name, run_id): an operation of the store, without cost
StoreOp(name, run_id) ==
    [name |-> name, run_id |-> run_id, cost |-> 0, input_tokens |-> 0,
     output_tokens |-> 0, model_name |-> <<>>, tool_name |-> <<>>]

\* the operations this client calls
StoreOps ==
    {StoreOp("increment_run_count", "r1"),
     StoreOp("remove_concurrent_run", "r1"),
     [StoreOp("increment_cost", "") EXCEPT
        !.cost = 2 * USD, !.tool_name = <<"search">>],
     [StoreOp("increment_cost", "") EXCEPT
        !.cost = USD, !.input_tokens = 1000, !.model_name = gpt_4o]}

\* the operations of the other clients
RivalOps ==
    {StoreOp("increment_run_count", "p1"),
     [StoreOp("increment_cost", "") EXCEPT
        !.cost = 3 * USD, !.tool_name = <<"search">>]}

\* what the other clients write while one operation runs: up to four
\* operations, one for each attempt and one to spare
RivalWrites ==
    {<<>>} \cup UNION {[1..n -> RivalOps] : n \in 1..4}

InitContention ==
    /\ now = StartTime
    /\ config = CostGuardConfig(TRUE, FALSE, TRUE)
    /\ policy = PoliciesA
    /\ budget_states = EmptyDict
    /\ run_states = EmptyDict
    /\ run_budgets = EmptyDict
    /\ store = EmptyDict
    /\ registered = {}
    /\ ended = {}
    /\ admits = [run_id \in RunIds |-> 0]
    /\ refresher = IdleRefresher
    /\ outcome = NoOutcome
    /\ thread = IdleThread
    /\ peer = NoPeer

\* ValkeyBudgetStore.get_or_create(scope_key, "b1", start, end) for the day
store_create(key) ==
    /\ store' = store_get_or_create(store, key, <<"b1">>,
                    get_period_boundaries("daily", now)[1],
                    get_period_boundaries("daily", now)[2]).st
    /\ outcome' = NoOutcome
    /\ UNCHANGED <<now, config, policy, budget_states, run_states, run_budgets,
                   registered, ended, admits, refresher, thread, peer>>

\* one of increment_cost, increment_run_count, remove_concurrent_run called
\* while the other clients write `rivals`; outcome keeps the call, the
\* keyspace it found, what it returned and the attempts it made
store_call(key, op, rivals) ==
    /\ key \in DOMAIN store =>
            /\ store[key].data.total_runs + store[key].data.total_tool_calls
                    + Len(rivals) < MaxStoreWrites
            /\ store[key].data.total_input_tokens + op.input_tokens <= MaxRunTokens
    /\ \E res \in {store_retry(store, key, op, rivals, 0)} :
        /\ store' = res.st
        /\ outcome' = [fault |-> IF rivals = <<>> THEN "none" ELSE "store_conflict",
                       raised |-> FALSE,
                       decision |-> res.result,
                       expected |-> Some([key |-> key, op |-> op, rivals |-> rivals,
                                          found |-> store,
                                          attempts |-> res.attempts])]
    /\ UNCHANGED <<now, config, policy, budget_states, run_states, run_budgets,
                   registered, ended, admits, refresher, thread, peer>>

NextContention ==
    \/ \E key \in ContendedKeys : store_create(key)
    \/ \E key \in ContendedKeys, op \in StoreOps, rivals \in RivalWrites :
            store_call(key, op, rivals)

SpecContention == InitContention /\ [][NextContention]_vars

---------------------------------------------------------------------------
(* Two processes, each with its own BudgetTracker, on one backing store.    *)
(* A hook of either process runs as one step; the store is what they share. *)

\* the run the second process admits
PeerRunIds == {"p1"}

\* a budgets file: one global budget for the day, with a cap out of reach
BudgetsFileS ==
    << [BudgetDefaults(<<"global-daily">>) EXCEPT
            !.scope = "global", !.period = "daily",
            !.max_cost = Some(100 * USD)] >>

InitPeer ==
    /\ now = StartTime
    /\ config = CostGuardConfig(TRUE, FALSE, TRUE)
    /\ policy = refresh(BudgetsFileS, <<>>, PricingFileA)
    /\ budget_states = EmptyDict
    /\ run_states = EmptyDict
    /\ run_budgets = EmptyDict
    /\ store = EmptyDict
    /\ registered = {}
    /\ ended = {}
    /\ admits = [run_id \in RunIds |-> 0]
    /\ refresher = IdleRefresher
    /\ outcome = NoOutcome
    /\ thread = IdleThread
    /\ peer = NoPeer

\* the second process's tracker and the store
PeerTracker == [bs |-> peer.bs, st |-> store]

\* history: the run rs, ended by process `who`, is added to what has been
\* committed to each of `keys`
commit_history(committed, keys, rs, who) ==
    [k \in DOMAIN committed \cup keys |->
        IF k \in keys
        THEN [cost |-> (IF k \in DOMAIN committed THEN committed[k].cost ELSE 0)
                       + rs.total_cost,
              runs |-> (IF k \in DOMAIN committed THEN committed[k].runs ELSE 0) + 1,
              by |-> (IF k \in DOMAIN committed THEN committed[k].by ELSE {}) \cup {who}]
        ELSE committed[k]]

\* CostGuard.on_run_start in the second process, chk being its
\* check_budget_limits' result
peer_on_run_start_checked(ctx, run_id, budgets, chk) ==
    IF rejecting_entries(chk.exceeded) # <<>>
    THEN /\ store' = chk.T.st
         /\ peer' = [peer EXCEPT !.bs = chk.T.bs,
                                 !.rb = StorePut(@, run_id, budgets)]
    ELSE \E T1 \in {admit_loop([T |-> register_run(chk.T, run_id,
                                          RunContext_create(ctx, run_id), budgets),
                                remaining |-> None, utilization |-> None,
                                warnings |-> <<>>],
                               budgets, ctx).T} :
            /\ store' = T1.st
            /\ peer' = [peer EXCEPT
                            !.bs = T1.bs,
                            !.rss = StorePut(@, run_id,
                                        NewRunState(RunContext_create(ctx, run_id))),
                            !.rb = StorePut(@, run_id, budgets),
                            !.admits = @ + 1]

\* CostGuard.on_run_start(tenant_id, strand_id, workflow_id, run_id) in the
\* second process
peer_on_run_start(ctx, run_id) ==
    /\ peer.admits < MaxAdmits
    /\ run_id \notin DOMAIN peer.rss
    /\ peer_on_run_start_checked(ctx, run_id, get_budgets_for_context(ctx),
            check_budget_limits(PeerTracker, ctx, get_budgets_for_context(ctx)))
    /\ UNCHANGED <<now, config, policy, budget_states, run_states, run_budgets,
                   registered, ended, admits, refresher, outcome, thread>>

\* CostGuard.after_tool_call(run_id, tool_name) in the second process
peer_after_tool_call(run_id, usage) ==
    /\ run_id \in DOMAIN peer.rss
    /\ peer.rss[run_id].total_tool_calls < MaxRunToolCalls
    /\ peer' = [peer EXCEPT !.rss =
                    update_run_cost(@, run_id, None, 0, 0, 0,
                                    Some(usage.tool_name), tool_usage_cost(usage))]
    /\ UNCHANGED <<now, config, policy, budget_states, run_states, run_budgets, store,
                   registered, ended, admits, refresher, outcome, thread>>

\* CostGuard.on_run_end(run_id, status) in the second process
peer_on_run_end(run_id) ==
    /\ run_id \in DOMAIN peer.rss
    /\ \E T1 \in {unregister_run(PeerTracker, peer.rss[run_id], peer.rb[run_id])} :
        /\ store' = T1.st
        /\ peer' = [peer EXCEPT
                        !.bs = T1.bs,
                        !.rss = StoreDrop(@, run_id),
                        !.rb = StoreDrop(@, run_id),
                        !.committed =
                            commit_history(@,
                                scope_keys(peer.rb[run_id], peer.rss[run_id].context)
                                    \cap DOMAIN peer.bs,
                                peer.rss[run_id], "peer")]
    /\ UNCHANGED <<now, config, policy, budget_states, run_states, run_budgets,
                   registered, ended, admits, refresher, outcome, thread>>

\* CostGuard.on_run_end(run_id, status) in the first process, for a live run
on_run_end_shared(run_id) ==
    /\ run_id \in DOMAIN run_states
    /\ \E T1 \in {on_run_end_result(run_id)} :
        /\ budget_states' = T1.bs
        /\ store' = T1.st
    /\ run_budgets' = StoreDrop(run_budgets, run_id)
    /\ run_states' = StoreDrop(run_states, run_id)
    /\ registered' = {p \in registered : p[2] # run_id}
    /\ ended' = ended \cup {run_id}
    /\ peer' = [peer EXCEPT !.committed =
                    commit_history(@,
                        scope_keys(run_budgets[run_id], run_states[run_id].context)
                            \cap DOMAIN budget_states,
                        run_states[run_id], "main")]
    /\ UNCHANGED <<now, config, policy, admits, refresher, outcome, thread>>

NextPeer ==
    \/ \E ctx \in Contexts : on_run_start(ctx, "r1")
    \/ \E usage \in ToolUsages :
            WithinToolCalls("r1") /\ after_tool_call("r1", usage)
    \/ on_run_end_shared("r1")
    \/ \E ctx \in Contexts, run_id \in PeerRunIds : peer_on_run_start(ctx, run_id)
    \/ \E run_id \in PeerRunIds, usage \in ToolUsages : peer_after_tool_call(run_id, usage)
    \/ \E run_id \in PeerRunIds : peer_on_run_end(run_id)

SpecPeer == InitPeer /\ [][NextPeer]_vars

---------------------------------------------------------------------------
(* The policies reloaded between hooks: PolicyStore.refresh run to its end, *)
(* the source returning the same budget with another max_cost and period    *)

\* a budgets file: a tenant budget of two dollars a day
BudgetsFileR ==
    << [BudgetDefaults(<<"tenant-plan">>) EXCEPT
            !.scope = "tenant", !.period = "daily",
            !.max_cost = Some(2 * USD)] >>

\* the same budget, edited to four dollars an hour
BudgetsFileR2 ==
    << [BudgetDefaults(<<"tenant-plan">>) EXCEPT
            !.scope = "tenant", !.period = "hourly",
            !.max_cost = Some(4 * USD)] >>

\* what the source's load_budgets can return
ReloadBudgetData == {BudgetsFileR, BudgetsFileR2}

InitReload ==
    /\ now = StartTime
    /\ config = CostGuardConfig(TRUE, FALSE, FALSE)
    /\ policy = refresh(BudgetsFileR, <<>>, PricingFileA)
    /\ budget_states = EmptyDict
    /\ run_states = EmptyDict
    /\ run_budgets = EmptyDict
    /\ store = EmptyDict
    /\ registered = {}
    /\ ended = {}
    /\ admits = [run_id \in RunIds |-> 0]
    /\ refresher = IdleRefresher
    /\ outcome = NoOutcome
    /\ thread = IdleThread
    /\ peer = NoPeer

\* PolicyStore.refresh(), the source returning budget_data
reload(budget_data) ==
    /\ policy' = refresh(budget_data, <<>>, PricingFileA)
    /\ UNCHANGED <<now, config, budget_states, run_states, run_budgets, store,
                   registered, ended, admits, refresher, outcome, thread, peer>>

NextReload ==
    \/ Tick
    \/ \E budget_data \in ReloadBudgetData : reload(budget_data)
    \/ \E ctx \in Contexts, run_id \in RunIds : on_run_start(ctx, run_id)
    \/ \E run_id \in RunIds, usage \in ToolUsages :
            WithinToolCalls(run_id) /\ after_tool_call(run_id, usage)
    \/ \E run_id \in RunIds : on_run_end(run_id)

SpecReload == InitReload /\ [][NextReload]_vars

---------------------------------------------------------------------------
(* Claims C1 - C10 *)

\* the budgets that apply to a live run, and the scope keys of their
\* PeriodUsages
applicable_budgets(run_id) == get_budgets_for_context(run_states[run_id].context)
applicable_keys(run_id) ==
    scope_keys(applicable_budgets(run_id), run_states[run_id].context)

\* the totals of the PeriodUsage under a scope key; a PeriodUsage that was
\* never created has accumulated nothing
period_total_cost(bs, k) == IF k \in DOMAIN bs THEN bs[k].usage.total_cost ELSE 0
period_total_runs(bs, k) == IF k \in DOMAIN bs THEN bs[k].usage.total_runs ELSE 0

\* C1: end_run of a live run adds exactly the RunState's total_cost to
\* total_cost, and 1 to total_runs, of the PeriodUsage of every budget that
\* applies to the run.
C1_EndRunCommitsRunTotals ==
    [][\A r \in RunIds :
        (r \in DOMAIN run_states /\ on_run_end(r)) =>
            \A k \in applicable_keys(r) :
                /\ k \in DOMAIN budget_states'
                /\ budget_states'[k].usage.total_cost =
                       period_total_cost(budget_states, k) + run_states[r].total_cost
                /\ budget_states'[k].usage.total_runs =
                       period_total_runs(budget_states, k) + 1]_vars

\* C2: in every reachable state the concurrent-run set of every PeriodUsage is
\* the set of runs that admit_run registered against it and that end_run has
\* not yet ended.
C2_ConcurrentSetIsLiveRuns ==
    \A k \in DOMAIN budget_states :
        budget_states[k].active_runs = {r \in RunIds : <<k, r>> \in registered}

\* the PeriodUsage that is current at `now` under a scope key, as the claims
\* speak of it: the accumulated totals of the current period (nothing, when no
\* PeriodUsage was created or the one kept has run out) and the concurrent set
current_total_cost(k) ==
    IF k \in DOMAIN budget_states /\ now < budget_states[k].usage.period_end
    THEN budget_states[k].usage.total_cost ELSE 0
current_total_runs(k) ==
    IF k \in DOMAIN budget_states /\ now < budget_states[k].usage.period_end
    THEN budget_states[k].usage.total_runs ELSE 0
current_concurrent(k) ==
    IF k \in DOMAIN budget_states THEN budget_states[k].active_runs ELSE {}

\* a limit that is set; zero tells whether a limit of zero counts as one
limit_set(o, zero) == IsSome(o) /\ (zero \/ Val(o) # 0)

\* the budget is exceeded for the context: max_cost is set, hard_limit holds
\* and utilization >= 1.0; or total_runs >= max_runs_per_period; or
\* |concurrent_runs| >= max_concurrent_runs
budget_exceeded(b, ctx, zero) ==
    \/ /\ IsSome(b.max_cost) /\ Val(b.max_cost) > 0
       /\ b.hard_limit
       /\ current_total_cost(get_scope_key(b, ctx)) >= Val(b.max_cost)
    \/ /\ limit_set(b.max_runs_per_period, zero)
       /\ current_total_runs(get_scope_key(b, ctx)) >= Val(b.max_runs_per_period)
    \/ /\ limit_set(b.max_concurrent_runs, zero)
       /\ Cardinality(current_concurrent(get_scope_key(b, ctx)))
              >= Val(b.max_concurrent_runs)

\* the applicable budgets, most specific first, that are exceeded and reject
\* new runs
rejecting_budgets(ctx, zero) ==
    SelectSeq(get_budgets_for_context(ctx),
              LAMBDA b : /\ budget_exceeded(b, ctx, zero)
                         /\ b.on_hard_limit_exceeded = "REJECT_NEW_RUNS")

\* the decision rejects exactly when a budget rejects, for the first of them
rejects_for(decision, rejecting) ==
    /\ decision.allowed = (rejecting = <<>>)
    /\ rejecting # <<>> =>
          /\ IsSome(decision.reason)
          /\ Val(decision.reason)[2] = Head(rejecting).id

\* C3 as stated: with enforcement on, admit_run returns allowed = false exactly
\* when some applicable budget is exceeded and has REJECT_NEW_RUNS, and its
\* reason is that of the first such budget in specificity order.  A limit of
\* zero is a limit: zero runs a period, zero concurrent runs.
C3_RejectsIffExceeded ==
    config.enable_budget_enforcement =>
        \A ctx \in Contexts, r \in RunIds :
            rejects_for(on_run_start_result(ctx, r).decision,
                        rejecting_budgets(ctx, TRUE))

\* C3 amended: the same, a max_runs_per_period or max_concurrent_runs of zero
\* counting as no limit.
C3_RejectsIffNonzeroLimitExceeded ==
    config.enable_budget_enforcement =>
        \A ctx \in Contexts, r \in RunIds :
            rejects_for(on_run_start_result(ctx, r).decision,
                        rejecting_budgets(ctx, FALSE))

\* C3 witness: with enforcement on, admit_run has rejected a run (it left the
\* run's budgets in _run_budgets and no RunState) and rejects it now, while
\* the most specific applicable budget is not among the rejecting ones.
C3_Witness ==
    /\ config.enable_budget_enforcement
    /\ \E ctx \in Contexts, r \in RunIds :
        /\ r \in DOMAIN run_budgets /\ r \notin DOMAIN run_states
        /\ ~on_run_start_result(ctx, r).decision.allowed
        /\ Head(rejecting_budgets(ctx, FALSE)) # Head(get_budgets_for_context(ctx))


\* a PeriodUsage is known by its scope key and period_start: the step keeps
\* the PeriodUsage under k, or puts one of another period (or a first one) there
keeps_period(k) ==
    /\ k \in DOMAIN budget_states
    /\ budget_states'[k].usage.period_start = budget_states[k].usage.period_start

\* a PeriodUsage nothing was accumulated in
zero_totals(usage) ==
    /\ usage.total_cost = 0 /\ usage.total_runs = 0
    /\ usage.total_input_tokens = 0 /\ usage.total_output_tokens = 0
    /\ usage.total_iterations = 0 /\ usage.total_tool_calls = 0
    /\ usage.model_costs = EmptyDict /\ usage.tool_costs = EmptyDict

\* C4: a rejected admit_run registers nothing: afterwards there is no RunState
\* for the rejected run_id unless one was live, which is left untouched; no
\* PeriodUsage's concurrent-run set or totals have changed (a PeriodUsage the
\* call created or rolled over to holds no totals and the concurrent set that
\* was there).
C4_RejectedAdmitRegistersNothing ==
    [][\A ctx \in Contexts, r \in RunIds :
        (on_run_start(ctx, r) /\ ~on_run_start_result(ctx, r).decision.allowed) =>
            /\ run_states' = run_states
            /\ DOMAIN budget_states \subseteq DOMAIN budget_states'
            /\ \A k \in DOMAIN budget_states' :
                /\ budget_states'[k].active_runs = current_concurrent(k)
                /\ IF keeps_period(k)
                   THEN budget_states'[k].usage = budget_states[k].usage
                   ELSE zero_totals(budget_states'[k].usage)]_vars

\* C4 witness: an admit_run was rejected (the run has budgets in _run_budgets
\* and no RunState) while another run is live with cost accrued.
C4_Witness ==
    /\ config.enable_budget_enforcement
    /\ \E r \in RunIds, live \in RunIds :
        /\ r \in DOMAIN run_budgets /\ r \notin DOMAIN run_states
        /\ live \in DOMAIN run_states /\ run_states[live].total_cost > 0


\* the PeriodUsage under k has run out at `now`
usage_expired(k) ==
    k \in DOMAIN budget_states /\ budget_states[k].usage.period_end <= now

\* bs, the BudgetStates a call leaves, has under k a PeriodUsage of the period
\* that contains `now`, all accumulators zero, in place of the one that ran
\* out, and the concurrent set that was there, but for the runs in `added`
rolled_over(bs, k, added) ==
    /\ k \in DOMAIN bs
    /\ zero_totals(bs[k].usage)
    /\ bs[k].usage.period_start <= now
    /\ now < bs[k].usage.period_end
    /\ <<bs[k].usage.period_start, bs[k].usage.period_end>>
          = get_period_boundaries(budget_states[k].budget.period, now)
    /\ bs[k].active_runs = budget_states[k].active_runs \cup added

\* rolled_over for every one of `keys` whose PeriodUsage has run out
all_rolled_over(bs, keys, added) ==
    \A k \in keys : usage_expired(k) => rolled_over(bs, k, added)

\* the budgets of a list up to the one named id
RECURSIVE budgets_through(_, _)
budgets_through(budgets, id) ==
    IF budgets = <<>> THEN <<>>
    ELSE IF Head(budgets).id = id THEN <<Head(budgets)>>
    ELSE <<Head(budgets)>> \o budgets_through(Tail(budgets), id)

\* the scope keys whose PeriodUsage before_iteration looks up for a live
\* run: those of the run's budgets, up to the budget that halts the run
iteration_keys(r, decision) ==
    IF ~config.enable_budget_enforcement THEN {}
    ELSE IF decision.allowed
    THEN scope_keys(run_budgets[r], run_states[r].context)
    ELSE IF Val(decision.reason)[1] = "hard limit exceeded during run"
    THEN scope_keys(budgets_through(run_budgets[r], Val(decision.reason)[2]),
                    run_states[r].context)
    ELSE {}

\* the scope keys whose PeriodUsage before_model_call looks up for a live
\* run: those of the run's budgets, when a routing policy applies or a cost
\* is estimated
model_call_keys(r, e, decision) ==
    IF \/ config.enable_routing /\ IsSome(get_routing_policy(run_states[r].context))
       \/ decision.allowed /\ e > 0 /\ config.enable_budget_enforcement
    THEN scope_keys(run_budgets[r], run_states[r].context)
    ELSE {}

C6_EndRunCommitsToNewPeriod ==
    [][\A r \in DOMAIN run_states :
        on_run_end(r) =>
            \A k \in applicable_keys(r) :
                usage_expired(k) =>
                    /\ budget_states'[k].usage.period_start <= now
                    /\ now < budget_states'[k].usage.period_end
                    /\ budget_states'[k].usage.total_cost = run_states[r].total_cost
                    /\ budget_states'[k].usage.total_runs = 1
                    /\ goc_key([bs |-> budget_states', st |-> store'], k,
                               budget_states[k].budget).bs[k].usage
                          = budget_states'[k].usage]_vars

\* C7: if admit_run is called again with the run_id of a run that is still
\* live, the second call is either rejected or a no-op: the run's RunState
\* and its accrued totals are unchanged, the run_id stays once in each
\* concurrent-run set, and the call counts no run in total_runs, in memory or
\* in the backing store, so that the run's single end_run adds exactly 1.
C7_DuplicateAdmitIsRejectedOrNoOp ==
    [][\A ctx \in Contexts, r \in DOMAIN run_states :
        on_run_start(ctx, r) =>
            /\ run_states' = run_states
            /\ \A k \in DOMAIN budget_states :
                /\ budget_states'[k].active_runs = budget_states[k].active_runs
                /\ keeps_period(k) =>
                      budget_states'[k].usage.total_runs
                          = budget_states[k].usage.total_runs
            /\ \A k \in DOMAIN store :
                (k \in DOMAIN store'
                 /\ store'[k].data.period_start = store[k].data.period_start) =>
                    store'[k].data.total_runs = store[k].data.total_runs]_vars

\* C8: for every live run, after any sequence of after_model_call and
\* after_tool_call, RunState.total_cost equals the sum of the values of
\* model_costs plus the sum of the values of tool_costs.
C8_TotalCostIsSumOfCosts ==
    \A r \in DOMAIN run_states :
        run_states[r].total_cost
            = DictSum(run_states[r].model_costs) + DictSum(run_states[r].tool_costs)

\* C8 witness: a live run has accrued both a model cost and a tool cost.
C8_Witness ==
    \E r \in DOMAIN run_states :
        /\ DictSum(run_states[r].model_costs) > 0
        /\ DictSum(run_states[r].tool_costs) > 0

\* a run ends in the step
run_ends == \E r \in DOMAIN run_states : r \notin DOMAIN run_states'

\* C9: after_model_call, after_tool_call and after_iteration leave every
\* PeriodUsage unchanged; within one period a PeriodUsage's total_cost and
\* total_runs never decrease and change only when a run ends.
C9_PeriodTotalsChangeOnlyAtRunEnd ==
    [][/\ (\/ \E r \in RunIds, u \in ModelUsages : after_model_call(r, u)
           \/ \E r \in RunIds, u \in ToolUsages : after_tool_call(r, u)
           \/ \E r \in RunIds, idx \in 0..MaxIterationIdx : after_iteration(r, idx))
            => budget_states' = budget_states
       /\ \A k \in DOMAIN budget_states :
            keeps_period(k) =>
                /\ budget_states'[k].usage.total_cost >= budget_states[k].usage.total_cost
                /\ budget_states'[k].usage.total_runs >= budget_states[k].usage.total_runs
                /\ (\/ budget_states'[k].usage.total_cost
                          # budget_states[k].usage.total_cost
                    \/ budget_states'[k].usage.total_runs
                          # budget_states[k].usage.total_runs) => run_ends]_vars

\* C9 witness: a live run has accrued cost that is in no PeriodUsage yet, while
\* the PeriodUsage of a budget that applies to it counts an earlier run.
C9_Witness ==
    \E r \in DOMAIN run_states :
        /\ run_states[r].total_cost > 0
        /\ \E k \in applicable_keys(r) :
            /\ k \in DOMAIN budget_states
            /\ budget_states[k].usage.total_runs = 1
            /\ budget_states[k].usage.total_cost = 0

\* C10: after_model_call on a live run adds the usage's cost (computed from
\* the pricing table when the supplied cost is 0) to RunState.total_cost and
\* to model_costs[model_name], and adds prompt_tokens and completion_tokens to
\* total_input_tokens and total_output_tokens, for every usage whatever its
\* cost.
C10_AfterModelCallRecordsUsage ==
    \A r \in DOMAIN run_states, u \in ModelUsages :
        /\ after_model_call_result(r, u)[r].total_cost
              = run_states[r].total_cost + model_usage_cost(u)
        /\ DictGet(after_model_call_result(r, u)[r].model_costs, u.model_name, 0)
              = DictGet(run_states[r].model_costs, u.model_name, 0)
                    + model_usage_cost(u)
        /\ after_model_call_result(r, u)[r].total_input_tokens
              = run_states[r].total_input_tokens + u.prompt_tokens
        /\ after_model_call_result(r, u)[r].total_output_tokens
              = run_states[r].total_output_tokens + u.completion_tokens


---------------------------------------------------------------------------
(* Claims C11 - C20 *)

\* the least number of a non-empty set of numbers
least(S) == CHOOSE m \in S : \A n \in S : m <= n

\* the iteration limit of a live run: the minimum over its applicable budgets
\* of max_iterations_per_run if set, else default_max_iterations_per_run
iteration_limit(r) ==
    least({OrDefault(applicable_budgets(r)[i].constraints.max_iterations_per_run,
                     default_max_iterations_per_run) :
              i \in 1..Len(applicable_budgets(r))})

\* the applicable budgets with HALT_RUN whose utilization is >= 1.0 in their
\* current period; soft tells whether a budget without hard_limit counts
full_halting_budgets(r, soft) ==
    {i \in 1..Len(applicable_budgets(r)) :
        /\ applicable_budgets(r)[i].on_hard_limit_exceeded = "HALT_RUN"
        /\ soft \/ applicable_budgets(r)[i].hard_limit
        /\ IsSome(applicable_budgets(r)[i].max_cost)
        /\ Val(applicable_budgets(r)[i].max_cost) > 0
        /\ current_total_cost(get_scope_key(applicable_budgets(r)[i],
                                            run_states[r].context))
               >= Val(applicable_budgets(r)[i].max_cost)}

\* with enforcement on, the hard cost limit of some applicable budget that
\* halts runs is hit
cost_limit_halts(r) ==
    config.enable_budget_enforcement /\ full_halting_budgets(r, FALSE) # {}

\* the iteration indices the claims about before_iteration are checked for:
\* around the limit a budget sets and around the default limit
IterationIdxs == {0, 1, 2, 49, 50, 51}

\* an IterationDecision that keeps the iteration limit
keeps_iteration_limit(d, idx, limit, cost_halts) ==
    /\ idx >= limit => ~d.allowed /\ d.force_terminate_run
    /\ (idx < limit /\ ~cost_halts) =>
          /\ d.allowed
          /\ d.remaining_iterations = Some(limit - idx)

\* C11: for a live run, before_iteration(run_id, idx) returns allowed = false
\* with force_terminate_run = true whenever idx >= the minimum over the run's
\* applicable budgets of (max_iterations_per_run if set, else
\* default_max_iterations_per_run), whether or not enforcement is enabled; for
\* idx below that minimum, when no hard cost limit is hit, it returns
\* allowed = true with remaining_iterations equal to that minimum minus idx.
C11_IterationLimitHalts ==
    \A r \in DOMAIN run_states, idx \in IterationIdxs :
        applicable_budgets(r) # <<>> =>
            keeps_iteration_limit(before_iteration_result(r, idx).decision, idx,
                                  iteration_limit(r), cost_limit_halts(r))

\* a live run whose budgets allow one iteration: iteration 0 proceeds with one
\* iteration remaining and iteration 1 is halted
C11_Witness ==
    \E r \in DOMAIN run_states :
        /\ applicable_budgets(r) # <<>>
        /\ iteration_limit(r) = 1
        /\ ~cost_limit_halts(r)
        /\ before_iteration_result(r, 0).decision.allowed
        /\ before_iteration_result(r, 0).decision.remaining_iterations = Some(1)
        /\ ~before_iteration_result(r, 1).decision.allowed
        /\ before_iteration_result(r, 1).decision.force_terminate_run

\* an IterationDecision that halts the run
halts_run(d) == ~d.allowed /\ d.force_terminate_run

\* C12 as stated: with enforcement on, before_iteration for a live run returns
\* allowed = false with force_terminate_run = true whenever some applicable
\* budget with on_hard_limit_exceeded = HALT_RUN has utilization >= 1.0 in its
\* current period.
C12_HaltsAtFullUtilization ==
    config.enable_budget_enforcement =>
        \A r \in DOMAIN run_states, idx \in IterationIdxs :
            full_halting_budgets(r, TRUE) # {} =>
                halts_run(before_iteration_result(r, idx).decision)

\* C12, amended: with enforcement on, before_iteration for a live run returns
\* allowed = false with force_terminate_run = true whenever some applicable
\* budget with hard_limit set and on_hard_limit_exceeded = HALT_RUN has
\* utilization >= 1.0 in its current period.
C12_HaltsAtHardLimit ==
    config.enable_budget_enforcement =>
        \A r \in DOMAIN run_states, idx \in IterationIdxs :
            full_halting_budgets(r, FALSE) # {} =>
                halts_run(before_iteration_result(r, idx).decision)

\* a live run below its iteration limit that the hard cost limit of a halting
\* budget stops
C12_Witness ==
    /\ config.enable_budget_enforcement
    /\ \E r \in DOMAIN run_states :
          /\ full_halting_budgets(r, FALSE) # {}
          /\ iteration_limit(r) > 0
          /\ halts_run(before_iteration_result(r, 0).decision)
          /\ Val(before_iteration_result(r, 0).decision.reason)[1]
                 = "hard limit exceeded during run"

\* the tool call limit of a live run: the minimum over its applicable budgets
\* of max_tool_calls_per_run if set, else default_max_tool_calls_per_run
tool_call_limit(r) ==
    least({OrDefault(applicable_budgets(r)[i].constraints.max_tool_calls_per_run,
                     default_max_tool_calls_per_run) :
              i \in 1..Len(applicable_budgets(r))})

\* a ToolDecision that keeps the tool call limit for a run that has made
\* `calls` tool calls
keeps_tool_call_limit(d, calls, limit) ==
    /\ d.allowed = (calls < limit)
    /\ d.skip_tool_call = (calls >= limit)
    /\ calls < limit => d.remaining_tool_calls = Some(limit - calls)

\* the RunState of a run after the after_tool_call of the usage
after_tool_call_state(r, usage) ==
    update_run_cost(run_states, r, None, 0, 0, 0,
                    Some(usage.tool_name), tool_usage_cost(usage))[r]

\* C13: for a live run, before_tool_call returns allowed = false
\* (skip_tool_call = true) if and only if RunState.total_tool_calls >= the
\* minimum over applicable budgets of (max_tool_calls_per_run if set, else
\* default_max_tool_calls_per_run); otherwise it returns allowed = true with
\* remaining_tool_calls equal to that minimum minus total_tool_calls.  Hence
\* the after_tool_call that follows an allowed before_tool_call leaves the
\* recorded number of tool calls within that minimum.
C13_ToolCallLimitRejects ==
    \A r \in DOMAIN run_states, usage \in ToolUsages :
        applicable_budgets(r) # <<>> =>
            /\ keeps_tool_call_limit(before_tool_call_result(r, usage.tool_name),
                                     run_states[r].total_tool_calls,
                                     tool_call_limit(r))
            /\ before_tool_call_result(r, usage.tool_name).allowed =>
                  after_tool_call_state(r, usage).total_tool_calls
                      <= tool_call_limit(r)

\* a live run that has made the one tool call its budgets allow: the next
\* before_tool_call is rejected
C13_Witness ==
    \E r \in DOMAIN run_states, usage \in ToolUsages :
        /\ applicable_budgets(r) # <<>>
        /\ tool_call_limit(r) = 1
        /\ run_states[r].total_tool_calls = 1
        /\ ~before_tool_call_result(r, usage.tool_name).allowed
        /\ before_tool_call_result(r, usage.tool_name).skip_tool_call

\* the tokens a live run has consumed
tokens_consumed(r) ==
    run_states[r].total_input_tokens + run_states[r].total_output_tokens

\* the token limits the applicable budgets of a live run set; zero tells
\* whether a limit of zero counts as one
token_limits(r, zero) ==
    {Val(applicable_budgets(r)[i].constraints.max_model_tokens_per_run) :
        i \in {k \in 1..Len(applicable_budgets(r)) :
                  limit_set(applicable_budgets(r)[k].constraints.max_model_tokens_per_run,
                            zero)}}

\* the max_tokens of the routing stage of a model call: that of the stage's
\* configuration in the run's routing policy, if routing is enabled and there
\* is one
stage_max_tokens(r, stage) ==
    IF /\ config.enable_routing
       /\ IsSome(get_routing_policy(run_states[r].context))
       /\ IsSome(get_stage_config(Val(get_routing_policy(run_states[r].context)),
                                  stage))
    THEN Val(get_stage_config(Val(get_routing_policy(run_states[r].context)),
                              stage)).max_tokens
    ELSE None

\* the least of a set of numbers as an Optional
least_or_none(S) == IF S = {} THEN None ELSE Some(least(S))

\* the tightest of the stage's max_tokens and the tokens each limit leaves
tightest_max_tokens(stage_max, limits, consumed) ==
    least_or_none((IF IsSome(stage_max) THEN {Val(stage_max)} ELSE {})
                  \cup {l - consumed : l \in limits})

\* a ModelDecision that keeps the token limits
keeps_token_limits(d, stage_max, limits, consumed) ==
    IF \E l \in limits : consumed >= l
    THEN ~d.allowed
    ELSE d.allowed /\ d.max_tokens = tightest_max_tokens(stage_max, limits, consumed)

\* C14 as stated: before_model_call for a live run returns allowed = false
\* when, for some applicable budget with max_model_tokens_per_run set, the
\* tokens the run has consumed have reached that limit; otherwise the returned
\* max_tokens is the minimum of the routing stage's max_tokens (if any) and
\* the remaining tokens of every budget that sets a token limit.
C14_TokenLimitRejects ==
    \A r \in DOMAIN run_states, m \in ModelNames, s \in Stages, e \in PromptEstimates :
        keeps_token_limits(before_model_call_result(r, m, s, e).decision,
                           stage_max_tokens(r, s), token_limits(r, TRUE),
                           tokens_consumed(r))

\* C14, amended: the same for the budgets whose max_model_tokens_per_run is
\* set and not zero.
C14_NonzeroTokenLimitRejects ==
    \A r \in DOMAIN run_states, m \in ModelNames, s \in Stages, e \in PromptEstimates :
        keeps_token_limits(before_model_call_result(r, m, s, e).decision,
                           stage_max_tokens(r, s), token_limits(r, FALSE),
                           tokens_consumed(r))

\* a live run that has consumed the tokens a budget allows it: its next model
\* call is rejected
C14_Witness ==
    \E r \in DOMAIN run_states, m \in ModelNames, s \in Stages, e \in PromptEstimates :
        /\ tokens_consumed(r) > 0
        /\ \E l \in token_limits(r, FALSE) : tokens_consumed(r) >= l
        /\ ~before_model_call_result(r, m, s, e).decision.allowed

\* C15: for a run_id with no live RunState (never admitted, rejected, or
\* already ended), before_iteration, before_model_call and before_tool_call
\* each return allowed = true (before_model_call with effective_model equal to
\* the requested model) and change no tracker state.
C15_UnknownRunIsAllowed ==
    \A r \in RunIds \ DOMAIN run_states :
        /\ \A idx \in IterationIdxs :
              /\ before_iteration_result(r, idx).decision.allowed
              /\ before_iteration_result(r, idx).T = Tracker
        /\ \A m \in ModelNames, s \in Stages, e \in PromptEstimates :
              /\ before_model_call_result(r, m, s, e).decision.allowed
              /\ before_model_call_result(r, m, s, e).decision.effective_model = Some(m)
              /\ before_model_call_result(r, m, s, e).T = Tracker
        /\ \A usage \in ToolUsages :
              before_tool_call_result(r, usage.tool_name).allowed

\* a run that has ended, past its iteration limit, while a PeriodUsage has run
\* out that a hook of a live run would roll over: the hooks allow it and leave
\* the tracker as it is
C15_Witness ==
    \E r \in ended \ DOMAIN run_states :
        /\ \E k \in DOMAIN budget_states : usage_expired(k)
        /\ before_iteration_result(r, 50).decision.allowed
        /\ before_iteration_result(r, 50).T = Tracker
        /\ \A m \in ModelNames :
              before_model_call_result(r, m, "planning", 1000).decision.effective_model
                  = Some(m)

\* C16: with enable_budget_enforcement off, admit_run always returns
\* allowed = true and registers the run, and at end_run the run's totals are
\* committed to the PeriodUsage of every applicable budget.
C16_DisabledEnforcementStillCommits ==
    [][~config.enable_budget_enforcement =>
          \A r \in RunIds :
              /\ \A ctx \in Contexts :
                    on_run_start(ctx, r) =>
                        /\ on_run_start_result(ctx, r).decision.allowed
                        /\ r \in DOMAIN run_states'
              /\ (r \in DOMAIN run_states /\ on_run_end(r)) =>
                    \A k \in applicable_keys(r) :
                        /\ k \in DOMAIN budget_states'
                        /\ budget_states'[k].usage.total_cost =
                               period_total_cost(budget_states, k)
                                   + run_states[r].total_cost
                        /\ budget_states'[k].usage.total_runs =
                               period_total_runs(budget_states, k) + 1]_vars

\* the applicable budgets of a context that set max_cost
capped_budgets(ctx) ==
    {i \in 1..Len(get_budgets_for_context(ctx)) :
        IsSome(get_budgets_for_context(ctx)[i].max_cost)}

\* the remaining budget and the utilization, in its current period, of the
\* i-th applicable budget of a context
current_remaining(ctx, i) ==
    Max(0, Val(get_budgets_for_context(ctx)[i].max_cost)
           - current_total_cost(get_scope_key(get_budgets_for_context(ctx)[i], ctx)))
current_utilization(ctx, i) ==
    <<current_total_cost(get_scope_key(get_budgets_for_context(ctx)[i], ctx)),
      Val(get_budgets_for_context(ctx)[i].max_cost)>>

\* u >= v for two utilizations; the amounts of the model are whole cents, and
\* are compared as cents to stay within the integers' range
FracGE(u, v) ==
    (u[1] \div 100) * (v[2] \div 100) >= (v[1] \div 100) * (u[2] \div 100)

\* u is the greatest utilization of the capped budgets of a context
greatest_utilization(u, ctx) ==
    /\ \A i \in capped_budgets(ctx) : FracGE(u, current_utilization(ctx, i))
    /\ \E i \in capped_budgets(ctx) : FracGE(current_utilization(ctx, i), u)

\* an admitting decision that reports the tightest budget
reports_tightest_budget(d, ctx) ==
    /\ d.remaining_budget =
          least_or_none({current_remaining(ctx, i) : i \in capped_budgets(ctx)})
    /\ capped_budgets(ctx) # {} =>
          /\ IsSome(d.budget_utilization)
          /\ greatest_utilization(Val(d.budget_utilization), ctx)

\* C17: with enforcement on, an admitting admit_run returns remaining_budget
\* equal to the minimum of the remaining budgets over all applicable budgets
\* that set max_cost (nil if none does) and budget_utilization equal to the
\* maximum utilization over those budgets.
C17_AdmitReportsTightestBudget ==
    config.enable_budget_enforcement =>
        \A ctx \in Contexts, r \in RunIds :
            on_run_start_result(ctx, r).decision.allowed =>
                reports_tightest_budget(on_run_start_result(ctx, r).decision, ctx)

\* the budget a decision's reason names is one that sets max_cost
names_capped_budget(reason, budgets) ==
    \E i \in 1..Len(budgets) :
        budgets[i].id = reason[2] /\ IsSome(budgets[i].max_cost)

\* C18: for a budget whose max_cost is unset, after any sequence of runs its
\* utilization is 0 and its remaining budget is nil, and the cost hard limit
\* of that budget never rejects an admit_run nor halts a before_iteration.
C18_UncappedBudgetNeverLimits ==
    /\ \A k \in DOMAIN budget_states :
          IsNone(budget_states[k].budget.max_cost) =>
              /\ utilization(budget_states[k])[1] = 0
              /\ remaining_budget(budget_states[k]) = None
    /\ \A ctx \in Contexts, r \in RunIds :
          (/\ ~on_run_start_result(ctx, r).decision.allowed
           /\ Val(on_run_start_result(ctx, r).decision.reason)[1]
                  = "hard limit exceeded") =>
              names_capped_budget(Val(on_run_start_result(ctx, r).decision.reason),
                                  get_budgets_for_context(ctx))
    /\ \A r \in DOMAIN run_states, idx \in IterationIdxs :
          (/\ ~before_iteration_result(r, idx).decision.allowed
           /\ Val(before_iteration_result(r, idx).decision.reason)[1]
                  = "hard limit exceeded during run") =>
              names_capped_budget(Val(before_iteration_result(r, idx).decision.reason),
                                  applicable_budgets(r))

\* a budget without max_cost that halts runs has had cost committed to it,
\* and the next run is admitted and its first iteration proceeds
C18_Witness ==
    \E k \in DOMAIN budget_states, r \in DOMAIN run_states :
        /\ IsNone(budget_states[k].budget.max_cost)
        /\ budget_states[k].budget.hard_limit
        /\ budget_states[k].budget.on_hard_limit_exceeded = "HALT_RUN"
        /\ budget_states[k].usage.total_cost > 0
        /\ k \in applicable_keys(r)
        /\ before_iteration_result(r, 0).decision.allowed

\* the specificity score of a budget: scope weight global 0 < tenant 10 <
\* strand 20 < workflow 30, plus tenant 1, strand 2, workflow 4 for each match
\* field that is not the wildcard
scope_weight(scope) ==
    CASE scope = "global" -> 0
      [] scope = "tenant" -> 10
      [] scope = "strand" -> 20
      [] scope = "workflow" -> 30
specificity(b) ==
    scope_weight(b.scope)
    + (IF b.match.tenant_id # Wild THEN 1 ELSE 0)
    + (IF b.match.strand_id # Wild THEN 2 ELSE 0)
    + (IF b.match.workflow_id # Wild THEN 4 ELSE 0)

\* a match field is the wildcard or equal to the context's field
field_matches(pattern, value) == pattern = Wild \/ pattern = value

\* the enabled budgets of a file, in input order, whose three match fields
\* match the context
matching_budgets(file, ctx) ==
    SelectSeq(file, LAMBDA b : /\ b.enabled
                               /\ field_matches(b.match.tenant_id, ctx.tenant_id)
                               /\ field_matches(b.match.strand_id, ctx.strand_id)
                               /\ field_matches(b.match.workflow_id, ctx.workflow_id))

\* res lists the elements of sel by descending score, those of equal score in
\* the order they have in sel; scores[i] is the score of sel[i]
ordered_by_score(res, sel, scores) ==
    /\ Len(res) = Len(sel)
    /\ \A i \in 1..Len(sel) :
          res[1 + Cardinality({j \in 1..Len(sel) :
                                  \/ scores[j] > scores[i]
                                  \/ scores[j] = scores[i] /\ j < i})]
              = sel[i]

\* the specificity scores of a list of budgets
specificities(sel) == [i \in 1..Len(sel) |-> specificity(sel[i])]

\* C19: get_budgets_for_context(tenant, strand, workflow) returns exactly the
\* enabled budgets whose three match fields are each `*` or equal to the
\* corresponding context field, ordered by descending specificity score, with
\* budgets of equal score kept in input order.
C19_BudgetsBySpecificity ==
    \A ctx \in StoreContexts :
        ordered_by_score(get_budgets_for_context(ctx),
                         matching_budgets(Val(policy.snapshot).budgets, ctx),
                         specificities(matching_budgets(Val(policy.snapshot).budgets, ctx)))

\* a run was admitted with the budgets of a file that lists a less specific
\* budget first, two budgets of equal score, and a budget that does not apply
C19_Witness ==
    \E r \in DOMAIN run_states :
        /\ run_budgets[r] = get_budgets_for_context(run_states[r].context)
        /\ Len(run_budgets[r]) >= 3
        /\ Len(run_budgets[r]) < Len(Val(policy.snapshot).budgets)
        /\ run_budgets[r] # matching_budgets(Val(policy.snapshot).budgets,
                                             run_states[r].context)
        /\ \E i \in 1..Len(run_budgets[r]) - 1 :
              specificity(run_budgets[r][i]) = specificity(run_budgets[r][i + 1])

\* the enabled routing policies of a file, in input order, that match the
\* context
matching_policies(file, ctx) ==
    SelectSeq(file, LAMBDA rp : /\ rp.enabled
                                /\ field_matches(rp.match.tenant_id, ctx.tenant_id)
                                /\ field_matches(rp.match.strand_id, ctx.strand_id)
                                /\ field_matches(rp.match.workflow_id, ctx.workflow_id))

\* the specificity score of a routing policy: tenant 1, strand 2, workflow 4
\* for each match field that is not the wildcard
policy_specificity(rp) ==
    (IF rp.match.tenant_id # Wild THEN 1 ELSE 0)
    + (IF rp.match.strand_id # Wild THEN 2 ELSE 0)
    + (IF rp.match.workflow_id # Wild THEN 4 ELSE 0)

\* the first, in input order, of the policies of a non-empty list that have
\* the highest score
most_specific(sel) ==
    sel[CHOOSE i \in 1..Len(sel) :
            \A j \in 1..Len(sel) :
                \/ policy_specificity(sel[j]) < policy_specificity(sel[i])
                \/ policy_specificity(sel[j]) = policy_specificity(sel[i]) /\ i <= j]

\* the model one policy alone selects for a stage, none of its stages having
\* a downgrade trigger: the stage's default_model, else the policy's
model_of(rp, stage) ==
    IF \E i \in 1..Len(rp.stages) : rp.stages[i].stage = stage
    THEN rp.stages[CHOOSE i \in 1..Len(rp.stages) : rp.stages[i].stage = stage]
             .default_model
    ELSE rp.default_model

\* C20: get_routing_policy returns the single enabled matching RoutingPolicy
\* with the highest specificity score (the first in input order among equal
\* scores), or none when no policy matches; model selection uses only that
\* policy and never merges in a less specific one.
C20_MostSpecificRoutingPolicy ==
    /\ \A ctx \in StoreContexts :
          get_routing_policy(ctx) =
              IF matching_policies(Val(policy.snapshot).routing, ctx) = <<>> THEN None
              ELSE Some(most_specific(matching_policies(Val(policy.snapshot).routing, ctx)))
    /\ \A r \in DOMAIN run_states, m \in ModelNames, s \in Stages :
          before_model_call_result(r, m, s, 0).decision.effective_model =
              IF matching_policies(Val(policy.snapshot).routing, run_states[r].context) = <<>>
              THEN Some(m)
              ELSE Some(model_of(most_specific(
                            matching_policies(Val(policy.snapshot).routing,
                                              run_states[r].context)), s))

\* a run of tenant t1 under a file that lists the policy for every context
\* first and then two policies of t1: the first of the two is returned, and
\* planning gets its default model although both others configure the stage
C20_Witness ==
    \E r \in DOMAIN run_states :
        /\ Len(matching_policies(Val(policy.snapshot).routing, run_states[r].context)) = 3
        /\ Val(policy.snapshot).routing[1].id = <<"route-any">>
        /\ Val(policy.snapshot).routing[2].id = <<"route-t1-a">>
        /\ Val(get_routing_policy(run_states[r].context)).id = <<"route-t1-a">>
        /\ \A m \in ModelNames :
              before_model_call_result(r, m, "planning", 0).decision.effective_model
                  = Some(gpt_4o)

---------------------------------------------------------------------------
(* Claims C21 - C30 *)

\* the inputs get_model_for_stage is checked for
RemainingBudgets == {None, Some(0), Some(3 * USD), Some(5 * USD)}
IterationCounts == {0, 2, 3}
Latencies == {None, Some(1000), Some(1500)}

\* the downgrade conditions of a trigger in the order they are evaluated, each
\* with whether it is satisfied and its reason; a condition whose operand is
\* not set is not satisfied
downgrade_conditions(trigger, soft, remaining, iteration_count, latency) ==
    << [met |-> trigger.soft_threshold_exceeded /\ soft,
        reason |-> "soft budget threshold exceeded"],
       [met |-> /\ IsSome(trigger.remaining_budget_below)
                /\ IsSome(remaining)
                /\ Val(remaining) < Val(trigger.remaining_budget_below),
        reason |-> "remaining budget below threshold"],
       [met |-> /\ IsSome(trigger.iteration_count_above)
                /\ iteration_count > Val(trigger.iteration_count_above),
        reason |-> "iteration count above threshold"],
       [met |-> /\ IsSome(trigger.latency_above_ms)
                /\ IsSome(latency)
                /\ Val(latency) > Val(trigger.latency_above_ms),
        reason |-> "average latency above threshold"] >>

\* what a stage configuration selects under a list of conditions
stage_choice(sc, conds) ==
    IF IsSome(sc.fallback_model) /\ \E i \in 1..Len(conds) : conds[i].met
    THEN <<Val(sc.fallback_model), sc.max_tokens, TRUE,
           conds[least({i \in 1..Len(conds) : conds[i].met})].reason>>
    ELSE <<sc.default_model, sc.max_tokens, FALSE, "">>

\* the configurations a policy has for a stage
stage_configs(rp, stage) == SelectSeq(rp.stages, LAMBDA sc : sc.stage = stage)

\* C21: get_model_for_stage: when the policy has a config for the stage with
\* a fallback_model, the downgrade conditions are evaluated in the order
\* soft_threshold_exceeded, remaining_budget_below, iteration_count_above,
\* latency_above_ms, each only when its operand is set, and the first
\* satisfied one returns (fallback_model, stage max_tokens, was_downgraded =
\* true, its reason); when none is satisfied or no fallback is set it returns
\* the stage default_model with was_downgraded = false; with no stage config
\* it returns the policy's default_model, no max_tokens and was_downgraded =
\* false.
C21_FirstSatisfiedTriggerDowngrades ==
    \A i \in 1..Len(policy.routing_policies), stage \in Stages, soft \in BOOLEAN,
       remaining \in RemainingBudgets, n \in IterationCounts, latency \in Latencies :
        get_model_for_stage(policy.routing_policies[i], stage, soft, remaining,
                            n, latency)
            = IF stage_configs(policy.routing_policies[i], stage) = <<>>
              THEN <<policy.routing_policies[i].default_model, None, FALSE, "">>
              ELSE stage_choice(
                      Head(stage_configs(policy.routing_policies[i], stage)),
                      downgrade_conditions(
                          Head(stage_configs(policy.routing_policies[i], stage))
                              .trigger_downgrade_on,
                          soft, remaining, n, latency))

\* a run is live under a policy whose planning stage sets a fallback and all
\* four triggers: with every condition satisfied the soft threshold is the
\* reason, with only the last two the iteration count is
C21_Witness ==
    \E r \in DOMAIN run_states, i \in 1..Len(policy.routing_policies) :
        /\ get_model_for_stage(policy.routing_policies[i], "planning", TRUE,
                               Some(0), 3, Some(1500))
               = <<gpt_4o_mini, Some(500), TRUE, "soft budget threshold exceeded">>
        /\ get_model_for_stage(policy.routing_policies[i], "planning", FALSE,
                               Some(5 * USD), 3, Some(1500))
               = <<gpt_4o_mini, Some(500), TRUE, "iteration count above threshold">>
        /\ get_model_for_stage(policy.routing_policies[i], "planning", FALSE,
                               None, 2, Some(1000))
               = <<gpt_4o, Some(500), FALSE, "">>
        /\ before_model_call_result(r, gpt_4o_dated, "planning", 0)
               .decision.effective_model = Some(gpt_4o)


\* the signals before_model_call's routing loop gives the router for a live
\* run: [T, soft, remaining]
router_signals(r) ==
    routing_budget_loop([T |-> Tracker, soft |-> FALSE, remaining |-> None],
                        DictGet(run_budgets, r, <<>>), run_states[r].context)

\* some budget applicable to a live run has, in its current period, a
\* utilization at or above one of its soft thresholds; any_action tells
\* whether budgets count whatever their on_soft_threshold_exceeded is, or only
\* those that set DOWNGRADE_MODEL
threshold_crossed(r, any_action) ==
    \E i \in 1..Len(applicable_budgets(r)) :
        /\ IsSome(applicable_budgets(r)[i].max_cost)
        /\ Val(applicable_budgets(r)[i].max_cost) > 0
        /\ any_action
           \/ applicable_budgets(r)[i].on_soft_threshold_exceeded = "DOWNGRADE_MODEL"
        /\ \E t \in 1..Len(applicable_budgets(r)[i].soft_thresholds) :
              100 * current_total_cost(get_scope_key(applicable_budgets(r)[i],
                                                     run_states[r].context))
                  >= applicable_budgets(r)[i].soft_thresholds[t]
                         * Val(applicable_budgets(r)[i].max_cost)

\* the stage configurations of a run's routing policy that set a fallback
\* model and the trigger soft_threshold_exceeded
soft_fallback_stages(r) ==
    {sc \in {Head(stage_configs(Val(get_routing_policy(run_states[r].context)), s)) :
                s \in {st \in Stages :
                         stage_configs(Val(get_routing_policy(run_states[r].context)),
                                       st) # <<>>}} :
        IsSome(sc.fallback_model) /\ sc.trigger_downgrade_on.soft_threshold_exceeded}

\* the live runs whose model calls are routed by a policy
routed_runs ==
    {r \in DOMAIN run_states :
        config.enable_routing /\ IsSome(get_routing_policy(run_states[r].context))}

\* a model call answered with the downgrade to a fallback model
downgraded_to(d, fallback) ==
    /\ d.allowed
    /\ d.was_downgraded
    /\ d.action = "downgrade"
    /\ d.effective_model = Some(fallback)

\* C22 as stated: in before_model_call the soft_threshold_exceeded signal
\* given to the router is true exactly when some budget applicable to the run
\* has utilization >= one of its soft_thresholds, and then a model call for a
\* stage with a fallback_model and the trigger soft_threshold_exceeded is
\* answered with allowed = true, was_downgraded = true and effective_model =
\* the fallback model.
C22_AnyCrossedThresholdDowngrades ==
    \A r \in routed_runs :
        /\ router_signals(r).soft = threshold_crossed(r, TRUE)
        /\ threshold_crossed(r, TRUE) =>
              \A sc \in soft_fallback_stages(r), m \in ModelNames, e \in PromptEstimates :
                  downgraded_to(before_model_call_result(r, m, sc.stage, e).decision,
                                Val(sc.fallback_model))

\* C22: in before_model_call the soft_threshold_exceeded signal given to the
\* router is true exactly when some budget applicable to the run whose
\* on_soft_threshold_exceeded is DOWNGRADE_MODEL has utilization >= one of its
\* soft_thresholds, and then a model call for a stage with a fallback_model
\* and the trigger soft_threshold_exceeded is either rejected for a per-run
\* token limit or answered with allowed = true, was_downgraded = true and
\* effective_model = the fallback model.
C22_DowngradeBudgetThresholdDowngrades ==
    \A r \in routed_runs :
        /\ router_signals(r).soft = threshold_crossed(r, FALSE)
        /\ threshold_crossed(r, FALSE) =>
              \A sc \in soft_fallback_stages(r), m \in ModelNames, e \in PromptEstimates :
                  \/ downgraded_to(before_model_call_result(r, m, sc.stage, e).decision,
                                   Val(sc.fallback_model))
                  \/ /\ ~before_model_call_result(r, m, sc.stage, e).decision.allowed
                     /\ Val(before_model_call_result(r, m, sc.stage, e)
                                .decision.reason)[1] = "token limit exceeded"

\* an earlier run has ended with a cost that took the tenant's budget, which
\* downgrades, past a threshold, and a later run's planning call is answered
\* with the fallback model
C22_Witness ==
    \E r \in routed_runs :
        /\ ended # {}
        /\ run_states[r].total_cost = 0
        /\ threshold_crossed(r, FALSE)
        /\ downgraded_to(before_model_call_result(r, gpt_4o_dated, "planning", 0).decision,
                         gpt_4o_mini)


\* what a budget applicable to a live run has spent in its current period,
\* the cost the run has accrued so far included
spend_with_run(r, i) ==
    current_total_cost(get_scope_key(applicable_budgets(r)[i], run_states[r].context))
        + run_states[r].total_cost

\* some downgrading budget of a live run is, the run's own cost included, at
\* or above one of its soft thresholds
threshold_crossed_with_run(r) ==
    \E i \in 1..Len(applicable_budgets(r)) :
        /\ IsSome(applicable_budgets(r)[i].max_cost)
        /\ Val(applicable_budgets(r)[i].max_cost) > 0
        /\ applicable_budgets(r)[i].on_soft_threshold_exceeded = "DOWNGRADE_MODEL"
        /\ \E t \in 1..Len(applicable_budgets(r)[i].soft_thresholds) :
              100 * spend_with_run(r, i)
                  >= applicable_budgets(r)[i].soft_thresholds[t]
                         * Val(applicable_budgets(r)[i].max_cost)

\* the least remaining budget of a live run's capped budgets, the run's own
\* cost included
remaining_with_run(r) ==
    least_or_none({Max(0, Val(applicable_budgets(r)[i].max_cost) - spend_with_run(r, i)) :
                      i \in {k \in 1..Len(applicable_budgets(r)) :
                                IsSome(applicable_budgets(r)[k].max_cost)}})

\* C23: the budget signals that before_model_call feeds to the router
\* (soft_threshold_exceeded and remaining_budget) include the cost the current
\* run has accrued so far through after_model_call and after_tool_call, so a
\* run whose own spend crosses a soft threshold is downgraded on its next
\* model call for a stage that falls back on that signal.
C23_SignalsIncludeRunSpend ==
    \A r \in routed_runs :
        /\ router_signals(r).soft = threshold_crossed_with_run(r)
        /\ router_signals(r).remaining = remaining_with_run(r)
        /\ threshold_crossed_with_run(r) =>
              \A sc \in soft_fallback_stages(r), m \in ModelNames, e \in PromptEstimates :
                  before_model_call_result(r, m, sc.stage, e).decision.allowed
                      => downgraded_to(
                            before_model_call_result(r, m, sc.stage, e).decision,
                            Val(sc.fallback_model))


\* what the store serves after a load: the budgets and the routing policies
\* sorted, and the pricing
served_after(load) ==
    [budgets |-> refresh_budgets(load.budgets),
     routing_policies |-> refresh_routing(load.routing),
     pricing |-> load.pricing]

\* what the store serves now
served_now ==
    [budgets |-> policy.budgets,
     routing_policies |-> policy.routing_policies,
     pricing |-> policy.pricing]

\* C24: if a refresh of the PolicyStore fails at any of its three loads
\* (budgets, routing policies, pricing) after an earlier successful load, the
\* budgets, routing policies and pricing served afterwards are all exactly
\* those of the last successful load and the failure is not raised; if no
\* load has ever succeeded, construction fails.
C24_FailedRefreshKeepsLastGoodLoad ==
    /\ refresher.pc = "idle" /\ refresher.result = "kept" =>
          /\ IsSome(policy.snapshot)
          /\ served_now = served_after(Val(policy.snapshot))
    /\ refresher.result = "raised" => IsNone(policy.snapshot)

\* the budgets and the routing policy a hook finds for a context in what the
\* store serves
found_in(served, ctx) ==
    [budgets |-> SelectSeq(served.budgets, LAMBDA b : matches_context(b, ctx)),
     routing_policy |->
        IF SelectSeq(served.routing_policies,
                     LAMBDA rp : routing_matches_context(rp, ctx)) = <<>>
        THEN None
        ELSE Some(Head(SelectSeq(served.routing_policies,
                                 LAMBDA rp : routing_matches_context(rp, ctx))))]

\* the loads a hook may rightly be served from while a refresh is at work:
\* the last successful one, and the one under way once its lists are loaded
single_loads ==
    {Val(policy.snapshot)}
    \cup (IF IsSome(refresher.budget_data) /\ IsSome(refresher.routing_data)
          THEN {[budgets |-> Val(refresher.budget_data),
                 routing |-> Val(refresher.routing_data),
                 pricing |-> policy.pricing]}
          ELSE {})

\* C25: a hook that runs concurrently with a policy refresh observes budgets
\* and routing policies that all come from one single load (entirely the old
\* snapshot or entirely the new one) and are fully sorted; it never observes
\* a mixture of two loads or a partially built list.
C25_HookObservesOneLoad ==
    PolicyStoreConstructed /\ refresher.pc # "idle" =>
        \A ctx \in Contexts :
            \E load \in single_loads :
                /\ get_budgets_for_context(ctx) = found_in(served_after(load), ctx).budgets
                /\ get_routing_policy(ctx) = found_in(served_after(load), ctx).routing_policy


\* C26: when a backing-store operation fails during a hook (error, timeout
\* or conflict-retry exhaustion), the configured FailureMode decides the
\* outcome: under fail_open the hook proceeds against in-memory state and
\* returns its normal decision; under fail_closed the hook returns a decision
\* with allowed = false.
C26_FailureModeDecidesStoreFaults ==
    outcome.fault \in {"store_error", "store_conflict"} =>
        /\ ~outcome.raised
        /\ IsSome(outcome.decision)
        /\ IF config.failure_mode = "fail_open"
           THEN outcome.decision = outcome.expected
           ELSE ~Val(outcome.decision).allowed

\* C27: a failure while emitting a metric inside a hook is swallowed: it is
\* never raised to the caller and never changes the decision the hook
\* returns.
C27_MetricFailureIsSwallowed ==
    outcome.fault = "metric_error" =>
        /\ ~outcome.raised
        /\ outcome.decision = outcome.expected


\* C28: between an admitting admit_run and end_run exactly one RunState
\* exists for the run_id; after end_run none exists: get_run_cost returns
\* nothing, a repeated end_run commits nothing more to any PeriodUsage, and
\* after_model_call or after_tool_call for that run_id change no state.
C28_RunStateLivesFromAdmitToEnd ==
    \A r \in RunIds :
        /\ admits[r] > 0 /\ r \notin ended =>
                /\ r \in DOMAIN run_states
                /\ run_states[r].context.run_id = r
                /\ IsSome(get_run_cost(r))
        /\ r \in ended =>
                /\ r \notin DOMAIN run_states
                /\ get_run_cost(r) = None
                /\ on_run_end_result(r).bs = budget_states
                /\ on_run_end_result(r).st = store
                /\ \A usage \in ModelUsages :
                        after_model_call_result(r, usage) = run_states
                /\ \A usage \in ToolUsages :
                        update_run_cost(run_states, r, None, 0, 0, 0,
                                        Some(usage.tool_name),
                                        tool_usage_cost(usage)) = run_states

\* a run has ended with its cost committed to a period while another run,
\* admitted, is live
C28_Witness ==
    /\ "r1" \in ended
    /\ admits["r2"] > 0
    /\ "r2" \notin ended
    /\ "r2" \in DOMAIN run_states
    /\ \E key \in DOMAIN budget_states : budget_states[key].usage.total_cost > 0


\* the entries of a table whose name is a prefix of model_name and no
\* shorter than any other such name
longest_prefix_entries(table, model_name) ==
    {i \in 1..Len(table.models) :
        /\ StartsWith(model_name, table.models[i].model_name)
        /\ \A j \in 1..Len(table.models) :
                StartsWith(model_name, table.models[j].model_name)
                    => Len(table.models[j].model_name) <= Len(table.models[i].model_name)}

\* the entries of a table under exactly the name model_name
exact_entries(table, model_name) ==
    {i \in 1..Len(table.models) : table.models[i].model_name = model_name}

\* C29: get_model_pricing(model_name) never fails and returns the pricing of
\* the exact-name entry if present, otherwise the pricing of the longest
\* known model name that is a prefix of model_name, otherwise the table's
\* fallback rates.
C29_PricingByExactThenLongestPrefix ==
    \A model_name \in PricedNames :
        IF exact_entries(policy.pricing, model_name) # {}
        THEN \E i \in exact_entries(policy.pricing, model_name) :
                get_model_pricing(policy.pricing, model_name) = policy.pricing.models[i]
        ELSE IF longest_prefix_entries(policy.pricing, model_name) # {}
        THEN \E i \in longest_prefix_entries(policy.pricing, model_name) :
                get_model_pricing(policy.pricing, model_name) = policy.pricing.models[i]
        ELSE get_model_pricing(policy.pricing, model_name)
                = ModelPricing(model_name, policy.pricing.fallback_input_per_1k,
                               policy.pricing.fallback_output_per_1k)

\* the cost of a model call by the formula of the pricing contract
cost_by_formula(pricing, usage) ==
    PerThousand(usage.prompt_tokens - usage.cached_tokens, pricing.input_per_1k)
    + PerThousand(usage.cached_tokens,
                  IF IsSome(pricing.cached_input_per_1k)
                  THEN Val(pricing.cached_input_per_1k) ELSE pricing.input_per_1k)
    + PerThousand(usage.completion_tokens, pricing.output_per_1k)
    + PerThousand(usage.reasoning_tokens,
                  IF IsSome(pricing.reasoning_per_1k)
                  THEN Val(pricing.reasoning_per_1k) ELSE 0)

\* C30: the cost of a model call is ((prompt_tokens - cached_tokens)/1000) *
\* input_per_1k + (cached_tokens/1000) * (cached_input_per_1k if set, else
\* input_per_1k) + (completion_tokens/1000) * output_per_1k +
\* (reasoning_tokens/1000) * (reasoning_per_1k if set, else 0); it is never
\* negative and is exactly 0 when all token counts are 0.
C30_CostOfModelCall ==
    \A usage \in PricingUsages :
        /\ calculate_model_cost(policy.pricing, usage)
             = cost_by_formula(get_model_pricing(policy.pricing, usage.model_name), usage)
        /\ calculate_model_cost(policy.pricing, usage) >= 0
        /\ (usage.prompt_tokens = 0 /\ usage.completion_tokens = 0
            /\ usage.cached_tokens = 0 /\ usage.reasoning_tokens = 0)
                => calculate_model_cost(policy.pricing, usage) = 0


---------------------------------------------------------------------------
(* Claims C31 - C40 *)

\* the first days of the calendar months from January 2024 to February
\* 2025, in days after 1 January 2024
MonthStartDays == <<0, 31, 60, 91, 121, 152, 182, 213, 244, 274, 305, 335, 366, 397>>

\* be is the calendar month that contains t
is_calendar_month(be, t) ==
    \E i \in 1..(Len(MonthStartDays) - 1) :
        /\ be = <<DayStart(MonthStartDays[i]), DayStart(MonthStartDays[i + 1])>>
        /\ be[1] <= t
        /\ t < be[2]

\* be = [start, end) contains t and is the hour, the day, the week from
\* Monday (the epoch, 1 January 2024, is a Monday) or the calendar month
period_of(period, be, t) ==
    /\ be[1] <= t
    /\ t < be[2]
    /\ CASE period = "hourly" ->
                be[1] % TicksPerHour = 0 /\ be[2] = be[1] + TicksPerHour
         [] period = "daily" ->
                be[1] % TicksPerDay = 0 /\ be[2] = be[1] + TicksPerDay
         [] period = "weekly" ->
                be[1] % TicksPerWeek = 0 /\ be[2] = be[1] + TicksPerWeek
         [] period = "monthly" -> is_calendar_month(be, t)

\* C31: for every period kind and reference time t, get_period_boundaries
\* returns [start, end) with start <= t < end, aligned to the hour, the day,
\* the Monday-based week or the calendar month (December rolling to January
\* of the next year); a PeriodUsage is treated as expired exactly when
\* now >= period_end, so an event at exactly the boundary instant belongs to
\* the new period: the state a hook then works on is of the period that
\* starts at that instant.
C31_PeriodsAlignedAndHalfOpen ==
    /\ \A period \in BudgetPeriods :
            period_of(period, get_period_boundaries(period, now), now)
    /\ \A k \in DOMAIN budget_states :
            /\ is_period_expired(budget_states[k])
                    <=> now >= budget_states[k].usage.period_end
            /\ \A ctx \in Contexts :
                \A bs \in {get_or_create_all(Tracker, get_budgets_for_context(ctx), ctx).bs} :
                    k \in DOMAIN bs =>
                        /\ period_of(budget_states[k].budget.period,
                                     <<bs[k].usage.period_start, bs[k].usage.period_end>>,
                                     now)
                        /\ now = budget_states[k].usage.period_end
                                => bs[k].usage.period_start = now

\* the clock stands at the first instant of January 2025 and the monthly
\* budget's PeriodUsage in memory is the one of December 2024
C31_Witness ==
    /\ now = DayStart(366)
    /\ \E k \in DOMAIN budget_states :
            /\ budget_states[k].budget.period = "monthly"
            /\ budget_states[k].usage.period_start = DayStart(335)
            /\ budget_states[k].usage.period_end = now


\* C32: register_run, unregister_run, update_run_cost and
\* check_budget_limits are serializable: when check_budget_limits over
\* several budgets runs concurrently with an unregister_run that commits to
\* the same budgets, the list it returns equals the list it would return if
\* run entirely before or entirely after that unregister_run.
C32_CheckBudgetLimitsIsSerializable ==
    (thread.pc = "checked" /\ Len(thread.serial) = 2) =>
        \/ thread.exceeded = thread.serial[1]
        \/ thread.exceeded = thread.serial[2]


\* the keyspace st once the first n of the other clients' operations are
\* written to key
RECURSIVE rivals_written(_, _, _, _)
rivals_written(st, key, rivals, n) ==
    IF n = 0 \/ rivals = <<>> THEN st
    ELSE rivals_written(
            StorePut(st, key, [data |-> store_modify(Head(rivals), st[key].data),
                               expire_at |-> None]),
            key, Tail(rivals), n - 1)

\* the last call of a store operation, c = outcome.expected, made at most 3
\* attempts; if fewer than 3 of them met a conflict it returned the value it
\* wrote on top of the other clients' writes, and if all 3 did it returned
\* None and the entry is as the other clients left it
retried_at_most_thrice(c) ==
    /\ c.attempts <= 3
    /\ ~outcome.raised
    /\ IF Len(c.rivals) < 3
       THEN /\ c.attempts = Len(c.rivals) + 1
            /\ c.key \in DOMAIN store
            /\ store[c.key].data
                 = store_modify(c.op, rivals_written(c.found, c.key, c.rivals, 3)[c.key].data)
            /\ outcome.decision = store_returned(c.op, store[c.key].data)
       ELSE /\ outcome.decision = None
            /\ store = rivals_written(c.found, c.key, c.rivals, 3)

\* a store operation has been called
store_called == IsSome(outcome.expected)

\* C33 as stated: each store-mutating operation (increment_cost,
\* increment_run_count, remove_concurrent_run) attempts its watch / read /
\* modify / conditional-write at most 3 times: it returns the updated value
\* on the first attempt that does not conflict, and if all 3 attempts
\* conflict it returns a soft failure (None) without raising and without
\* having changed the stored value.
C33_RetriesAtMostThrice ==
    store_called => retried_at_most_thrice(Val(outcome.expected))

\* C33, amended: the same for a scope key the store holds; for a key it
\* does not hold the operation returns None on its first attempt and writes
\* nothing.
C33_RetriesAtMostThriceOnHeldKey ==
    store_called =>
        IF Val(outcome.expected).key \in DOMAIN Val(outcome.expected).found
        THEN retried_at_most_thrice(Val(outcome.expected))
        ELSE /\ outcome.decision = None
             /\ ~outcome.raised
             /\ Val(outcome.expected).attempts = 1
             /\ store = Val(outcome.expected).found

\* an operation on a held key met three conflicts and gave up, and the entry
\* holds what the other clients wrote
C33_Witness ==
    /\ store_called
    /\ Val(outcome.expected).key \in DOMAIN Val(outcome.expected).found
    /\ Len(Val(outcome.expected).rivals) >= 3
    /\ Val(outcome.expected).attempts = 3
    /\ outcome.decision = None
    /\ store # Val(outcome.expected).found


\* both processes are without a live run
no_live_run == run_states = EmptyDict /\ peer.rss = EmptyDict

\* C34: with two tracker processes sharing one backing store, no committed
\* update is lost: after runs have been ended by both processes against the
\* same scope key, the stored total_cost and total_runs for that key equal
\* the sums over all ended runs of both processes.
C34_NoCommittedUpdateIsLost ==
    \A k \in DOMAIN peer.committed :
        (peer.committed[k].by = {"main", "peer"} /\ no_live_run /\ k \in DOMAIN store) =>
            /\ store[k].data.total_cost = peer.committed[k].cost
            /\ store[k].data.total_runs = peer.committed[k].runs


\* the entry the store holds under k agrees with the PeriodUsage the
\* tracker bs holds under k on total_cost, total_runs and the concurrent runs
store_agrees(bs, st, k) ==
    /\ k \in DOMAIN bs
    /\ k \in DOMAIN st
    /\ st[k].data.total_cost = bs[k].usage.total_cost
    /\ st[k].data.total_runs = bs[k].usage.total_runs
    /\ st[k].data.concurrent_run_ids = bs[k].active_runs

\* C35: with a backing store configured and a single process, after each
\* register_run and each unregister_run completes, the stored state of every
\* affected scope key agrees with the in-memory PeriodUsage on total_cost,
\* total_runs and the set of concurrent run ids.
C35_StoreAgreesWithMemory ==
    [][config.use_store =>
        \A r \in RunIds :
            /\ \A ctx \in Contexts :
                (on_run_start(ctx, r) /\ on_run_start_result(ctx, r).decision.allowed) =>
                    \A k \in scope_keys(get_budgets_for_context(ctx), ctx) :
                        store_agrees(budget_states', store', k)
            /\ (on_run_end(r) /\ r \in DOMAIN run_states) =>
                    \A k \in scope_keys(run_budgets[r], run_states[r].context) :
                        store_agrees(budget_states', store', k)]_vars


\* C36: after every write to a store entry (set, get_or_create,
\* increment_cost, increment_run_count, remove_concurrent_run, and the persist
\* done on rollover or run end) the entry's expiration equals the period_end
\* recorded in the entry, so an entry never outlives its period.
C36_EntryExpiresAtPeriodEnd ==
    \A k \in DOMAIN store :
        store[k].expire_at = Some(store[k].data.period_end)


\* C37: with enforcement on, for a budget with max_concurrent_runs = N and
\* on_hard_limit_exceeded = REJECT_NEW_RUNS, the number of runs simultaneously
\* registered against one scope instance never exceeds N, under every
\* interleaving of concurrent admit_run and end_run calls.
C37_ConcurrentRunsNeverExceedLimit ==
    config.enable_budget_enforcement =>
        \A k \in DOMAIN budget_states :
            (/\ IsSome(budget_states[k].budget.max_concurrent_runs)
             /\ budget_states[k].budget.on_hard_limit_exceeded = "REJECT_NEW_RUNS") =>
                Cardinality(budget_states[k].active_runs)
                    <= Val(budget_states[k].budget.max_concurrent_runs)


\* the runs admitted against scope key k that have not ended
live_runs(k) == {r \in RunIds : <<k, r>> \in registered}

\* C38: with enforcement on, for a budget with max_runs_per_period = N and
\* on_hard_limit_exceeded = REJECT_NEW_RUNS, at most N runs are admitted
\* against one scope instance within a single period.  While the period that
\* held the first hook call is still the current one, the runs admitted in it
\* are those that ended in it (total_runs) and those still live.
C38_RunsPerPeriodNeverExceedLimit ==
    config.enable_budget_enforcement =>
        \A k \in DOMAIN budget_states :
            (/\ IsSome(budget_states[k].budget.max_runs_per_period)
             /\ budget_states[k].budget.on_hard_limit_exceeded = "REJECT_NEW_RUNS"
             /\ budget_states[k].usage.period_start <= StartTime
             /\ now < budget_states[k].usage.period_end) =>
                budget_states[k].usage.total_runs + Cardinality(live_runs(k))
                    <= Val(budget_states[k].budget.max_runs_per_period)


\* the scope keys run r is registered against
registered_keys(r) == {k \in DOMAIN budget_states : <<k, r>> \in registered}

\* no concurrent-run set holds a run
no_concurrent_run ==
    \A k \in DOMAIN budget_states : budget_states[k].active_runs = {}

\* C39: the budgets a run is unregistered from at end_run are exactly the
\* budgets it was registered with at admit_run, even when the policy store
\* reloads different policies in between; hence if every admitted run is
\* eventually ended, every concurrent-run set eventually becomes empty.
C39_UnregisteredFromTheBudgetsOfAdmission ==
    /\ [][\A r \in RunIds :
            (on_run_end(r) /\ r \in DOMAIN run_states) =>
                {k \in DOMAIN budget_states :
                    k \in scope_keys(DictGet(run_budgets, r, <<>>),
                                     run_states[r].context)}
                    = registered_keys(r)]_vars
    /\ \A r \in RunIds : (r \in DOMAIN run_states) ~> no_concurrent_run


\* the admission decision d for the budgets of ctx is made on the values the
\* policies hold now: a rejection for a hard limit names a budget whose
\* period cost has reached its max_cost, a run is not admitted past such a
\* budget, the utilization and the remaining budget reported are those of an
\* applicable budget against its max_cost, and a state whose period had
\* expired is in the budget's period that holds now
decided_on_policy(d, budgets, ctx, bs0, bs1) ==
    /\ \A i \in 1..Len(budgets) :
        \A k \in {get_scope_key(budgets[i], ctx)} :
            (k \in DOMAIN bs0 /\ k \in DOMAIN bs1) =>
                /\ d.reason = Some(<<"hard limit exceeded", budgets[i].id>>) =>
                        /\ IsSome(budgets[i].max_cost)
                        /\ bs1[k].usage.total_cost >= Val(budgets[i].max_cost)
                /\ (/\ Truthy(budgets[i].max_cost)
                    /\ budgets[i].hard_limit
                    /\ budgets[i].on_hard_limit_exceeded = "REJECT_NEW_RUNS"
                    /\ bs1[k].usage.total_cost >= Val(budgets[i].max_cost)) =>
                        ~d.allowed
                /\ is_period_expired(bs0[k]) =>
                        <<bs1[k].usage.period_start, bs1[k].usage.period_end>>
                            = get_period_boundaries(budgets[i].period, now)
    /\ (d.allowed /\ IsSome(d.budget_utilization)) =>
        \E i \in 1..Len(budgets) :
            \E k \in {get_scope_key(budgets[i], ctx)} :
                /\ k \in DOMAIN bs1
                /\ IsSome(budgets[i].max_cost)
                /\ d.budget_utilization =
                        Some(<<bs1[k].usage.total_cost, Val(budgets[i].max_cost)>>)
                /\ d.remaining_budget =
                        Some(Max(0, Val(budgets[i].max_cost) - bs1[k].usage.total_cost))

\* C40: after a policy reload changes the max_cost or period of a budget,
\* later admission, halt and routing decisions for a scope instance that is
\* already tracked use the reloaded values: utilization and remaining budget
\* are computed against the new max_cost, and the next rollover uses the new
\* period.
C40_DecisionsUseReloadedBudget ==
    [][\A ctx \in Contexts, r \in RunIds :
            on_run_start(ctx, r) =>
                decided_on_policy(on_run_start_result(ctx, r).decision,
                                  get_budgets_for_context(ctx), ctx,
                                  budget_states, budget_states')]_vars

====
